---- MODULE Spec2Model ----
(***************************************************************************)
(* Model of melange: the Variable / backprop graph of src/src/backprop and *)
(* the layout / view engine of src/src/tensor.                             *)
(*                                                                         *)
(* Spec       : the computation graph of statically shaped variables       *)
(*              (Variable::new, Rc clone, Variable operations, backward    *)
(*              and the replay closures).                                   *)
(* SpecDyn    : leaves with a dynamic shape and the shape assertion of     *)
(*              their backward.                                            *)
(* SpecLayout : owned tensors, broadcast views and StridedChunks.          *)
(***************************************************************************)
EXTENDS Integers, Sequences, FiniteSets, TLC

\* ------------------------------------------------------------------------
\* Bounds of the graph model
\* ------------------------------------------------------------------------
MaxLeaves == 3
MaxOps == 2
MaxClones == 1
MaxBackward == 1
MaxDynLeaves == 1

\* Option::None of an Option<Tensor>; Some(t) is the (non-empty) data of t
None == <<>>
NoPanic == "none"

Min2(a, b) == IF a <= b THEN a ELSE b

RECURSIVE Product(_)
Product(s) == IF Len(s) = 0 THEN 1 ELSE Head(s) * Product(Tail(s))

\* ------------------------------------------------------------------------
\* Owned contiguous layouts and the elementwise kernels
\* ------------------------------------------------------------------------

\* std::slice::chunks as used by StaticHeapLayout::chunks / HeapLayout::chunks
SliceChunks(data, chunk_size) ==
    LET n == (Len(data) + chunk_size - 1) \div chunk_size
    IN  [k \in 1..n |-> SubSeq(data, (k - 1) * chunk_size + 1,
                                Min2(k * chunk_size, Len(data)))]

Zeros(n) == [i \in 1..n |-> 0]

\* the element operations the kernels are expanded with
Elem1(op, x, param) ==
    CASE op = "scal_mul" -> x * param
      [] op = "abs" -> IF x < 0 THEN 0 - x ELSE x
      [] op = "signum" -> IF x > 0 THEN 1 ELSE IF x < 0 THEN 0 - 1 ELSE 0
      [] op = "as_contiguous" -> x

\* the division of the primitive integers: the quotient is truncated towards 0
TruncDiv(x, y) ==
    LET q == (IF x < 0 THEN 0 - x ELSE x) \div (IF y < 0 THEN 0 - y ELSE y)
    IN  IF (x < 0) # (y < 0) THEN 0 - q ELSE q

Elem2(op, x, y) ==
    CASE op = "add" -> x + y
      [] op = "sub" -> x - y
      [] op = "mul" -> x * y
      [] op = "div" -> TruncDiv(x, y)

Elem3(op, x, y, z) ==
    CASE op = "mul_add" -> x * y + z

\* the chunk loop of a unary / scalar kernel writing into out: zip of the
\* chunk iterators, then zip of the elements of each pair of chunks
Kernel1(op, A, param, out, chunk_size) ==
    [j \in 1..Len(out) |->
        LET k == ((j - 1) \div chunk_size) + 1
            i == ((j - 1) % chunk_size) + 1
        IN  IF k <= Len(A) /\ i <= Len(A[k])
            THEN Elem1(op, A[k][i], param) ELSE out[j]]

\* the chunk loop of a binary kernel
Kernel2(op, A, B, out, chunk_size) ==
    [j \in 1..Len(out) |->
        LET k == ((j - 1) \div chunk_size) + 1
            i == ((j - 1) % chunk_size) + 1
        IN  IF k <= Min2(Len(A), Len(B)) /\ i <= Min2(Len(A[k]), Len(B[k]))
            THEN Elem2(op, A[k][i], B[k][i]) ELSE out[j]]

\* the chunk loop of a ternary kernel
Kernel3(op, A, B, C, out, chunk_size) ==
    [j \in 1..Len(out) |->
        LET k == ((j - 1) \div chunk_size) + 1
            i == ((j - 1) % chunk_size) + 1
        IN  IF k <= Min2(Len(A), Min2(Len(B), Len(C)))
               /\ i <= Min2(Len(A[k]), Min2(Len(B[k]), Len(C[k])))
            THEN Elem3(op, A[k][i], B[k][i], C[k][i]) ELSE out[j]]

\* the functional binary operations on owned contiguous data: out is
\* Tensor::default(), chunk_size the minimum of the operands' opt_chunk_size
\* (their element count)
Binary(op, a, b) ==
    LET chunk_size == Min2(Len(a), Len(b))
    IN  Kernel2(op, SliceChunks(a, chunk_size), SliceChunks(b, chunk_size),
                Zeros(Len(a)), chunk_size)

\* the functional unary and scalar operations: chunk_size = self.opt_chunk_size()
Unary(op, a, param) ==
    Kernel1(op, SliceChunks(a, Len(a)), param, Zeros(Len(a)), Len(a))

add(a, b) == Binary("add", a, b)
sub(a, b) == Binary("sub", a, b)
mul(a, b) == Binary("mul", a, b)
div(a, b) == Binary("div", a, b)
mul_add(a, b, c) ==
    LET chunk_size == Min2(Len(a), Min2(Len(b), Len(c)))
    IN  Kernel3("mul_add", SliceChunks(a, chunk_size), SliceChunks(b, chunk_size),
                SliceChunks(c, chunk_size), Zeros(Len(a)), chunk_size)
scal_mul(a, param) == Unary("scal_mul", a, param)
abs(a) == Unary("abs", a, 0)
signum(a) == Unary("signum", a, 0)
as_contiguous(a) == Unary("as_contiguous", a, 0)

\* the in-place operations: chunk_size = rhs.opt_chunk_size()
add_(self, rhs) == Kernel2("add", SliceChunks(self, Len(rhs)),
                           SliceChunks(rhs, Len(rhs)), self, Len(rhs))
mul_(self, rhs) == Kernel2("mul", SliceChunks(self, Len(rhs)),
                           SliceChunks(rhs, Len(rhs)), self, Len(rhs))
div_(self, rhs) == Kernel2("div", SliceChunks(self, Len(rhs)),
                           SliceChunks(rhs, Len(rhs)), self, Len(rhs))
scal_mul_(self, param) ==
    Kernel1("scal_mul", SliceChunks(self, Len(self)), param, self, Len(self))

\* ------------------------------------------------------------------------
\* The computation graph
\* ------------------------------------------------------------------------
\* A node records, next to the fields of BackpropNode, the accumulator it was
\* constructed with (created); a frame of backward records the accumulator it
\* found on entry (before) and how often it has accumulated and invoked.
VARIABLES
    nodes,      \* arena of BackpropNode cells (Rc<RefCell<..>>), in creation order
    handles,    \* number of Variable handles the caller holds on each node
    stack,      \* call stack of the running backward
    panicked,   \* NoPanic, or the panic that aborted the program
    calls,      \* number of backward calls the caller has started
    clones,     \* number of handle clones the caller has made
    root        \* the caller's last backward call, the accumulators before it
                \* and how often each node's backward has been entered in it

gvars == <<nodes, handles, stack, panicked, calls, clones, root>>

\* The layout engine: one owned tensor, the latest view borrowed from it and
\* one chunk iterator borrowed from the view.
VARIABLES
    tensor,     \* <<>> or <<t>>: the owned tensor (StaticHeapLayout / HeapLayout
                \* / StackLayout)
    view,       \* <<>> or <<v>>: the latest SliceLayout view of the tensor's data
    iter,       \* <<>> or <<it>>: the StridedChunks iterator over the view
    yielded,    \* the slices the iterator has returned so far
    outcome,    \* result of the last fallible call ("none" before any)
    lpanic,     \* NoPanic, or the panic that aborted the program
    made,       \* how each view was made: the call, its argument, the layout it
                \* was taken from and the type parameters S and C on both sides
    last,       \* <<>> or <<c>>: the arguments of the last constructor or
                \* elementwise operation the caller made
    result      \* <<>> or <<r>>: the tensor the last elementwise operation
                \* returned, or the value of the last comparison

lvars == <<tensor, view, iter, yielded, outcome, lpanic, made, last, result>>

\* One chunk of an elementwise kernel: the slices the zipped chunk iterators
\* handed to the parallel map, and the per-element tasks of the map.
VARIABLES
    kernel,     \* <<>> or <<k>>: the kernel that runs, with the slices it got
    cells,      \* <<>> or <<c>>: the current contents of the three slices
    tasks,      \* per zipped element: the position of its task and what it read
    accesses    \* the reads and writes the tasks have made so far

kvars == <<kernel, cells, tasks, accesses>>

vars == <<nodes, handles, stack, panicked, calls, clones, root,
          tensor, view, iter, yielded, outcome, lpanic, made, last, result,
          kernel, cells, tasks, accesses>>

\* The static shape S shared by the statically shaped variables, the runtime
\* shapes of dynamically shaped tensors, and the data the caller supplies.
StaticS == <<1, 2>>
DynShapes == {<<1, 2>>, <<2, 1>>}
LeafData(i) == {<<i, 0 - (i + 1)>>}
BackGrads == {<<1, 2>>}
ScalParams == {2}
Dims == {"Static", "Dynamic"}

NodeIds == 1..Len(nodes)
Leaves == {n \in NodeIds : nodes[n].closure = "no_op"}
OpNodes == NodeIds \ Leaves

IsDyn(n) == nodes[n].D = "Dynamic" \/ nodes[n].Dback = "Dynamic"

\* Variable::grad: a copy of the accumulator option
grad(n) == nodes[n].grad

\* variant: the borrow of an earlier call of the node's backward is never
\* released
SharedBorrows_kept(n) ==
    root[1].entered[n] - 1

\* RefCell state of a node, as held by the frames of the running backward:
\* `let node = self.borrow()` is alive while the closure of the call runs.
SharedBorrows(n) ==
    Cardinality({i \in 1..Len(stack) :
                    stack[i].node = n /\ stack[i].pc = "closure"})

\* New::new for a statically shaped tensor
NewNode(data, require_grad) ==
    [value |-> data, shape |-> StaticS,
     grad |-> IF require_grad THEN Zeros(Product(StaticS)) ELSE None,
     created |-> IF require_grad THEN Zeros(Product(StaticS)) ELSE None,
     closure |-> "no_op", operands |-> <<>>, param |-> 0,
     D |-> "Static", Dback |-> "Static"]

\* New::new for a dynamically shaped tensor (grad = Tensor::alloc(shape)),
\* and the leaves whose backward gradient type is dynamic
NewDynNode(d, dback, shape, data, require_grad) ==
    [value |-> data, shape |-> shape,
     grad |-> IF require_grad THEN Zeros(Product(shape)) ELSE None,
     created |-> IF require_grad THEN Zeros(Product(shape)) ELSE None,
     closure |-> "no_op", operands |-> <<>>, param |-> 0,
     D |-> d, Dback |-> dback]

\* variant: only the first operand decides
ResultGrad2_first(a, b) ==
    IF nodes[a].grad # None THEN Zeros(Product(StaticS)) ELSE None

\* the accumulator option of the result of a Variable operation
ResultGrad2(a, b) ==
    IF nodes[a].grad # None THEN Zeros(Product(StaticS))
    ELSE IF nodes[b].grad # None THEN Zeros(Product(StaticS))
    ELSE None

ResultGrad1(a) ==
    IF nodes[a].grad # None THEN Zeros(Product(StaticS)) ELSE None

ResultGrad3(a, b, c) ==
    IF nodes[a].grad # None THEN Zeros(Product(StaticS))
    ELSE IF nodes[b].grad # None THEN Zeros(Product(StaticS))
    ELSE IF nodes[c].grad # None THEN Zeros(Product(StaticS))
    ELSE None

\* variant: the closure captures a handle of the node under construction
OpNode_self(value, g, closure, operands, param) ==
    [value |-> value, shape |-> StaticS, grad |-> g, created |-> g,
     closure |-> closure,
     operands |-> [i \in DOMAIN operands |-> Len(nodes) + 1],
     param |-> param, D |-> "Static", Dback |-> "Static"]

\* variant: the first slot of the closure holds a handle of the node under
\* construction, so the replay re-enters the node it is replaying
OpNode_reentrant(value, g, closure, operands, param) ==
    [value |-> value, shape |-> StaticS, grad |-> g, created |-> g,
     closure |-> closure,
     operands |-> [i \in DOMAIN operands |->
                      IF i = 1 THEN Len(nodes) + 1 ELSE operands[i]],
     param |-> param, D |-> "Static", Dback |-> "Static"]

OpNode(value, g, closure, operands, param) ==
    [value |-> value, shape |-> StaticS, grad |-> g, created |-> g,
     closure |-> closure, operands |-> operands, param |-> param,
     D |-> "Static", Dback |-> "Static"]

\* The replay closures: the gradients handed to the operands' backward, in
\* the order of the calls.
closure_no_op(g) == <<>>

\* variant: the second operand receives twice the gradient
closure_add_doubled(g) ==
    LET other_grad == scal_mul(g, 2)
    IN  <<g, other_grad>>

\* variant: only the first operand's backward is called
closure_add_first(g) == <<g>>

closure_add(g) ==
    LET other_grad == as_contiguous(g)
    IN  <<g, other_grad>>

closure_sub(g) ==
    LET other_grad == scal_mul(g, 0 - 1)
    IN  <<g, other_grad>>

\* variant: each operand receives the gradient times its own value
closure_mul_own(self, other, g) ==
    LET other_grad == mul(g, nodes[other].value)
        g2 == mul_(g, nodes[self].value)
    IN  <<g2, other_grad>>

closure_mul(self, other, g) ==
    LET other_grad == mul(g, nodes[self].value)
        g2 == mul_(g, nodes[other].value)
    IN  <<g2, other_grad>>

closure_div(self, other, g) ==
    LET other_grad == mul(g, nodes[self].value)
        g2 == div_(g, nodes[other].value)
    IN  <<g2, other_grad>>

closure_scal_mul(param, g) == <<scal_mul_(g, param)>>

closure_abs(self, g) ==
    LET self_grad == signum(nodes[self].value)
    IN  <<mul_(g, self_grad)>>

closure_mul_add(self, other0, other1, g) ==
    LET other0_grad == mul(g, nodes[self].value)
        other1_grad == as_contiguous(g)
        g2 == mul_(g, nodes[self].value)
    IN  <<g2, other0_grad, other1_grad>>

backward_closure(n, g) ==
    LET nd == nodes[n]
    IN  CASE nd.closure = "no_op" -> closure_no_op(g)
          [] nd.closure = "add" -> closure_add(g)
          [] nd.closure = "sub" -> closure_sub(g)
          [] nd.closure = "mul" -> closure_mul(nd.operands[1], nd.operands[2], g)
          [] nd.closure = "div" -> closure_div(nd.operands[1], nd.operands[2], g)
          [] nd.closure = "scal_mul" -> closure_scal_mul(nd.param, g)
          [] nd.closure = "abs" -> closure_abs(nd.operands[1], g)
          [] nd.closure = "mul_add" ->
                closure_mul_add(nd.operands[1], nd.operands[2], nd.operands[3], g)

\* variant: the dynamic expansions skip the shape assertion
Frame_unchecked(n, g, gshape) ==
    [node |-> n, grad |-> g, gshape |-> gshape, pc |-> "accumulate",
     idx |-> 0, out |-> <<>>, before |-> nodes[n].grad,
     accumulated |-> 0, invoked |-> 0]

Frame(n, g, gshape) ==
    [node |-> n, grad |-> g, gshape |-> gshape,
     pc |-> IF IsDyn(n) THEN "assert" ELSE "accumulate",
     idx |-> 0, out |-> <<>>, before |-> nodes[n].grad,
     accumulated |-> 0, invoked |-> 0]

Top == stack[Len(stack)]
SetTop(f) == [stack EXCEPT ![Len(stack)] = f]
Idle == stack = <<>> /\ panicked = NoPanic

\* ---- caller's operations ------------------------------------------------

New ==
    /\ Idle /\ Cardinality(Leaves) < MaxLeaves
    /\ \E data \in LeafData(Len(nodes) + 1), require_grad \in BOOLEAN :
          nodes' = Append(nodes, NewNode(data, require_grad))
    /\ handles' = Append(handles, 1)
    /\ UNCHANGED <<stack, panicked, calls, clones, root>>
    /\ UNCHANGED <<lvars, kvars>>

NewDynamic ==
    /\ Idle /\ Cardinality(Leaves) < MaxLeaves
    /\ Cardinality({n \in NodeIds : IsDyn(n)}) < MaxDynLeaves
    /\ \E d \in Dims, dback \in Dims, shape \in DynShapes,
          data \in LeafData(Len(nodes) + 1), require_grad \in BOOLEAN :
          /\ d = "Dynamic" \/ dback = "Dynamic"
          /\ d = "Static" => shape = StaticS
          /\ nodes' = Append(nodes, NewDynNode(d, dback, shape, data, require_grad))
    /\ handles' = Append(handles, 1)
    /\ UNCHANGED <<stack, panicked, calls, clones, root>>
    /\ UNCHANGED <<lvars, kvars>>

\* Clone for Variable: Rc::clone of the handle
Clone ==
    /\ Idle /\ clones < MaxClones
    /\ \E n \in NodeIds :
          /\ handles[n] >= 1
          /\ handles' = [handles EXCEPT ![n] = @ + 1]
    /\ clones' = clones + 1
    /\ UNCHANGED <<nodes, stack, panicked, calls, root>>
    /\ UNCHANGED <<lvars, kvars>>

\* the handles an operation moves into its closure
Consume(ops) ==
    [n \in NodeIds |->
        handles[n] - Cardinality({i \in 1..Len(ops) : ops[i] = n})]

CanMove(ops) ==
    /\ \A i \in 1..Len(ops) : ~IsDyn(ops[i])
    /\ \A n \in NodeIds : Consume(ops)[n] >= 0

BinaryValue(op, a, b) ==
    CASE op = "add" -> add(nodes[a].value, nodes[b].value)
      [] op = "sub" -> sub(nodes[a].value, nodes[b].value)
      [] op = "mul" -> mul(nodes[a].value, nodes[b].value)
      [] op = "div" -> div(nodes[a].value, nodes[b].value)

\* add / sub / mul / div of two variables; the division of the forward value
\* by a tensor that holds a zero panics
BinaryOp ==
    /\ Idle /\ Cardinality(OpNodes) < MaxOps
    /\ \E op \in {"add", "sub", "mul", "div"}, a \in NodeIds, b \in NodeIds :
          /\ CanMove(<<a, b>>)
          /\ IF op = "div" /\ \E i \in 1..Len(nodes[b].value) : nodes[b].value[i] = 0
             THEN /\ panicked' = "attempt to divide by zero"
                  /\ UNCHANGED <<nodes, handles>>
             ELSE /\ nodes' = Append(nodes, OpNode(BinaryValue(op, a, b),
                                       ResultGrad2(a, b), op, <<a, b>>, 0))
                  /\ handles' = Append(Consume(<<a, b>>), 1)
                  /\ UNCHANGED panicked
    /\ UNCHANGED <<stack, calls, clones, root>>
    /\ UNCHANGED <<lvars, kvars>>

\* scal_mul of a variable and a scalar
ScalarOp ==
    /\ Idle /\ Cardinality(OpNodes) < MaxOps
    /\ \E a \in NodeIds, param \in ScalParams :
          /\ CanMove(<<a>>)
          /\ nodes' = Append(nodes, OpNode(scal_mul(nodes[a].value, param),
                                ResultGrad1(a), "scal_mul", <<a>>, param))
          /\ handles' = Append(Consume(<<a>>), 1)
    /\ UNCHANGED <<stack, panicked, calls, clones, root>>
    /\ UNCHANGED <<lvars, kvars>>

\* abs of a variable
UnaryOp ==
    /\ Idle /\ Cardinality(OpNodes) < MaxOps
    /\ \E a \in NodeIds :
          /\ CanMove(<<a>>)
          /\ nodes' = Append(nodes, OpNode(abs(nodes[a].value),
                                ResultGrad1(a), "abs", <<a>>, 0))
          /\ handles' = Append(Consume(<<a>>), 1)
    /\ UNCHANGED <<stack, panicked, calls, clones, root>>
    /\ UNCHANGED <<lvars, kvars>>

\* mul_add of three variables
MulAddOp ==
    /\ Idle /\ Cardinality(OpNodes) < MaxOps
    /\ \E a \in NodeIds, b \in NodeIds, c \in NodeIds :
          /\ CanMove(<<a, b, c>>)
          /\ nodes' = Append(nodes,
                OpNode(mul_add(nodes[a].value, nodes[b].value, nodes[c].value),
                       ResultGrad3(a, b, c), "mul_add", <<a, b, c>>, 0))
          /\ handles' = Append(Consume(<<a, b, c>>), 1)
    /\ UNCHANGED <<stack, panicked, calls, clones, root>>
    /\ UNCHANGED <<lvars, kvars>>

\* the record of the running call after one more entry of n's backward
Entered(n) ==
    [root EXCEPT ![1].entered[n] = @ + 1]

\* the caller's call of backward on a handle it holds
Backward ==
    /\ Idle /\ calls < MaxBackward
    /\ \E n \in NodeIds, g \in BackGrads, gshape \in DynShapes :
          /\ handles[n] >= 1
          /\ nodes[n].Dback = "Static" => gshape = StaticS
          /\ stack' = <<Frame(n, g, gshape)>>
          /\ root' = <<[node |-> n, grad |-> g, gshape |-> gshape,
                       pre |-> [i \in NodeIds |-> nodes[i].grad],
                       entered |-> [i \in NodeIds |-> IF i = n THEN 1 ELSE 0]]>>
    /\ calls' = calls + 1
    /\ UNCHANGED <<nodes, handles, panicked, clones>>
    /\ UNCHANGED <<lvars, kvars>>

\* ---- steps of Variable::backward ----------------------------------------

\* the shape assertion of the dynamic expansions
AssertShape ==
    /\ panicked = NoPanic /\ stack # <<>> /\ Top.pc = "assert"
    /\ IF nodes[Top.node].shape # Top.gshape
       THEN /\ panicked' = "Variable value and backward gradient must have the same shape"
            /\ UNCHANGED stack
       ELSE /\ stack' = SetTop([Top EXCEPT !.pc = "accumulate"])
            /\ UNCHANGED panicked
    /\ UNCHANGED <<nodes, handles, calls, clones, root>>
    /\ UNCHANGED <<lvars, kvars>>

\* variant: the gradient is added twice
Accumulated_twice(n, g) ==
    IF nodes[n].grad # None
    THEN [nodes EXCEPT ![n].grad = add_(add_(@, g), g)]
    ELSE nodes

\* variant: the gradient is added into the value tensor
Accumulated_value(n, g) ==
    [nodes EXCEPT ![n].value = add_(@, g)]

\* variant: a detached node gets an accumulator on its first backward
Accumulated_always(n, g) ==
    IF nodes[n].grad # None
    THEN [nodes EXCEPT ![n].grad = add_(@, g)]
    ELSE [nodes EXCEPT ![n].grad = g]

\* { let mut node = self.borrow_mut(); if let Some(g) = &mut node.grad { g.add_(&grad) } }
Accumulated(n, g) ==
    IF nodes[n].grad # None
    THEN [nodes EXCEPT ![n].grad = add_(@, g)]
    ELSE nodes

Accumulate ==
    /\ panicked = NoPanic /\ stack # <<>> /\ Top.pc = "accumulate"
    /\ IF SharedBorrows(Top.node) > 0
       THEN /\ panicked' = "BorrowMutError"
            /\ UNCHANGED <<nodes, stack>>
       ELSE /\ nodes' = Accumulated(Top.node, Top.grad)
            /\ stack' = SetTop([Top EXCEPT !.pc = "invoke",
                    !.accumulated = IF nodes[Top.node].grad # None THEN @ + 1 ELSE @])
            /\ UNCHANGED panicked
    /\ UNCHANGED <<handles, calls, clones, root>>
    /\ UNCHANGED <<lvars, kvars>>

\* let node = self.borrow(); (node.backward_closure)(grad): the closure
\* computes the operands' gradients and calls the first operand's backward
Invoke ==
    /\ panicked = NoPanic /\ stack # <<>> /\ Top.pc = "invoke"
    /\ LET out == backward_closure(Top.node, Top.grad)
           f == [Top EXCEPT !.pc = "closure", !.out = out,
                            !.invoked = @ + 1,
                            !.idx = IF out = <<>> THEN 0 ELSE 1]
       IN  IF out = <<>>
           THEN /\ stack' = SetTop(f)
                /\ UNCHANGED root
           ELSE /\ stack' = Append(SetTop(f),
                            Frame(nodes[Top.node].operands[1], out[1], StaticS))
                /\ root' = Entered(nodes[Top.node].operands[1])
    /\ UNCHANGED <<nodes, handles, panicked, calls, clones>>
    /\ UNCHANGED <<lvars, kvars>>

\* the closure goes on to the next operand's backward
Dispatch ==
    /\ panicked = NoPanic /\ stack # <<>> /\ Top.pc = "closure"
    /\ Top.idx < Len(Top.out)
    /\ stack' = Append(SetTop([Top EXCEPT !.idx = @ + 1]),
                       Frame(nodes[Top.node].operands[Top.idx + 1],
                             Top.out[Top.idx + 1], StaticS))
    /\ root' = Entered(nodes[Top.node].operands[Top.idx + 1])
    /\ UNCHANGED <<nodes, handles, panicked, calls, clones>>
    /\ UNCHANGED <<lvars, kvars>>

\* the closure and backward return; the shared borrow is dropped
Return ==
    /\ panicked = NoPanic /\ stack # <<>> /\ Top.pc = "closure"
    /\ Top.idx = Len(Top.out)
    /\ stack' = SubSeq(stack, 1, Len(stack) - 1)
    /\ UNCHANGED <<nodes, handles, panicked, calls, clones, root>>
    /\ UNCHANGED <<lvars, kvars>>

\* ------------------------------------------------------------------------
\* Shapes, owned tensors, broadcast views and StridedChunks
\* ------------------------------------------------------------------------
MaxDim == 3
MaxRank == 2
MaxVecLen == 6
MaxViews == 2

\* type-level marker of a dimension known at run time only
Dyn == 0

\* the static shapes the caller uses: every shape within the bounds, and the
\* one-axis shape of four elements
Shapes == UNION {[1..r -> 1..MaxDim] : r \in 1..MaxRank} \cup {<<4>>}

\* the vector the caller hands to try_from
VecData(n) == [i \in 1..n |-> 10 + i]

\* the value the caller hands to fill
FillValue == 7

\* the data of the other operand the caller hands to an elementwise operation
SelfData(n) == [i \in 1..n |-> 100 * i]

\* shape::intrinsic_strides_in_place: cumulative products from the right
intrinsic_strides_in_place(shape) ==
    [i \in 1..Len(shape) |-> Product(SubSeq(shape, i + 1, Len(shape)))]

\* variant: the extent of the first axis only
NUM_ELEMENTS_first(S) == S[1]

\* StaticShape::NUM_ELEMENTS
NUM_ELEMENTS(S) ==
    Product(S)

\* Reduction<U0>: the shape with axis 0 replaced by 1
Reduction0(S) == [i \in 1..Len(S) |-> IF i = 1 THEN 1 ELSE S[i]]

\* Broadcast<Z> for S: compared axis by axis from the last one; the remaining
\* leading axes of Z are free; Z may not be shorter than S
BroadcastOutput(S, Z) ==
    /\ Len(S) <= Len(Z)
    /\ \A j \in 0..(Len(S) - 1) :
          LET x == S[Len(S) - j]
              y == Z[Len(Z) - j]
          IN  x = y \/ x = 1 \/ y = 1

\* the runtime assertion of the dynamic broadcast
RuntimeBroadcastable(shape, current_shape) ==
    \A j \in 0..(Min2(Len(shape), Len(current_shape)) - 1) :
        LET x == shape[Len(shape) - j]
            y == current_shape[Len(current_shape) - j]
        IN  x = 1 \/ y = 1 \/ x = y

\* external strides of the source: self.strides() / internal strides, and 0
\* on the axes of extent 1
external_strides(strides, internal_strides, shape) ==
    [i \in 1..Min2(Len(strides), Min2(Len(internal_strides), Len(shape))) |->
        IF shape[i] = 1 THEN 0 ELSE strides[i] \div internal_strides[i]]

\* the strides of the target with the first `take` entries zeroed, then
\* multiplied, from the last axis backwards, by the external strides
broadcast_strides(target_strides, external, take) ==
    LET len == Len(target_strides)
        m == Min2(len, Len(external))
        zeroed == [i \in 1..len |-> IF i <= take THEN 0 ELSE target_strides[i]]
    IN  [i \in 1..len |->
            IF i > len - m
            THEN zeroed[i] * external[Len(external) - (len - i)]
            ELSE zeroed[i]]

\* strides.iter().rev().zip(ys.rev()).find(|(x, _)| x == 0): the entry of ys
\* paired with the innermost zero stride, or `otherwise`
find_opt_chunk_size(strides, ys, otherwise) ==
    LET m == Min2(Len(strides), Len(ys))
        zero == {j \in 0..(m - 1) : strides[Len(strides) - j] = 0}
    IN  IF zero = {} THEN otherwise
        ELSE LET j == CHOOSE k \in zero : \A l \in zero : k <= l
             IN  ys[Len(ys) - j]

SliceLayout(d, shape, strides, num_elements, opt_chunk_size) ==
    [D |-> d, shape |-> shape, strides |-> strides,
     num_elements |-> num_elements, opt_chunk_size |-> opt_chunk_size]

\* Tensor::broadcast::<Z>() of a statically shaped tensor t
broadcast(t, Z) ==
    LET internal_strides == intrinsic_strides_in_place(t.shape)
        external == external_strides(t.strides, internal_strides, t.shape)
        zs == intrinsic_strides_in_place(Z)
        strides == broadcast_strides(zs, external, Len(zs) - Len(external))
    IN  SliceLayout("Static", Z, strides, NUM_ELEMENTS(Z),
                    find_opt_chunk_size(strides, zs, NUM_ELEMENTS(Z)))

\* Tensor::broadcast::<Z>(shape) of a dynamically shaped tensor t, once the
\* runtime assertion has passed; take is the number of leading strides zeroed
broadcast_dynamic(t, shape, take) ==
    LET internal_strides == intrinsic_strides_in_place(t.shape)
        external == external_strides(t.strides, internal_strides, t.shape)
        strides == broadcast_strides(intrinsic_strides_in_place(shape),
                                     external, take)
        num_elements == Product(shape)
    IN  SliceLayout("Dynamic", shape, strides, num_elements,
                    find_opt_chunk_size(strides, strides, num_elements))

\* SliceLayout::linear_index: fold over the position and the strides, both
\* taken from their last entry backwards
linear_index(strides, position) ==
    LET m == Min2(Len(position), Len(strides))
        acc[j \in 0..m] ==
            IF j = 0 THEN 0
            ELSE acc[j - 1] + position[Len(position) - (j - 1)]
                              * strides[Len(strides) - (j - 1)]
    IN  acc[m]

\* the step sizes and the chunk size StridedChunks::new stores: the loop runs
\* over the shape from the last axis backwards and divides chunk_size as it goes
RECURSIVE step_sizes_from(_, _, _)
step_sizes_from(step_sizes, i, chunk_size) ==
    IF i = 0 THEN [step_sizes |-> step_sizes, chunk_size |-> chunk_size]
    ELSE IF chunk_size < step_sizes[i]
         THEN step_sizes_from([step_sizes EXCEPT ![i] = 1], i - 1, chunk_size)
         ELSE step_sizes_from(step_sizes, i - 1, chunk_size \div step_sizes[i])

\* StridedChunks::new
StridedChunks_new(layout, chunk_size) ==
    LET r == step_sizes_from(layout.shape, Len(layout.shape), chunk_size)
    IN  [counter |-> Zeros(layout.num_elements), dead |-> FALSE,
         step_sizes |-> r.step_sizes, chunk_size |-> r.chunk_size,
         arg |-> chunk_size]

\* the odometer loop of StridedChunks::next over the zipped digits, step sizes
\* and bounds, from the last zipped entry backwards
RECURSIVE advance(_, _, _, _)
advance(counter, step_sizes, shape, i) ==
    IF i = 0 THEN [counter |-> counter, dead |-> TRUE]
    ELSE IF counter[i] + step_sizes[i] >= shape[i]
         THEN advance([counter EXCEPT ![i] = 0], step_sizes, shape, i - 1)
         ELSE [counter |-> [counter EXCEPT ![i] = @ + step_sizes[i]],
               dead |-> FALSE]

\* Iterator::rev().collect() of a Vec
Reverse(s) == [i \in 1..Len(s) |-> s[Len(s) + 1 - i]]

\* TransposePolicy::Transposed of the markers Contiguous, Transposed, Strided
Transposed(C) ==
    CASE C = "Contiguous" -> "Transposed"
      [] C = "Transposed" -> "Contiguous"
      [] C = "Strided" -> "Strided"

\* The owned tensors. The record keeps the type parameters D, S and L and what
\* the layout's shape() and strides() return.
\* StaticTensor: Tensor { layout: StaticHeapLayout { data: v } }
StaticTensor(S, v) ==
    [D |-> "Static", S |-> S, shape |-> S,
     strides |-> intrinsic_strides_in_place(S), data |-> v,
     L |-> "StaticHeapLayout"]

\* DynamicTensor: Tensor { layout: HeapLayout { data: v, shape, strides } }
DynamicTensor(S, shape, strides, v) ==
    [D |-> "Dynamic", S |-> S, shape |-> shape, strides |-> strides,
     data |-> v, L |-> "HeapLayout"]

\* StackTensor: Tensor::default() with StackLayout<T, S>; StackLayout::strides
\* returns S::to_vec()
StackTensor(S) ==
    [D |-> "Static", S |-> S, shape |-> S, strides |-> S,
     data |-> Zeros(NUM_ELEMENTS(S)), L |-> "StackLayout"]

\* the loop of HeapLayout::fill over the reversed shape: every entry becomes
\* the product of the entries after it, and num_elements the whole product
HeapLayout_fill(value, shape) ==
    LET num_elements[j \in 0..Len(shape)] ==
            IF j = 0 THEN 1
            ELSE num_elements[j - 1] * shape[Len(shape) - (j - 1)]
    IN  [data |-> [i \in 1..num_elements[Len(shape)] |-> value],
         shape |-> shape,
         strides |-> [i \in 1..Len(shape) |-> num_elements[Len(shape) - i]]]

\* Layout::shape / strides / num_elements / opt_chunk_size of an owned tensor
Layout(t) == SliceLayout(t.D, t.shape, t.strides, Len(t.data), Len(t.data))

\* the tensor the next view is taken from, and its type parameters S and C
Source == IF view = <<>> THEN Layout(tensor[1]) ELSE view[1]
SourceS == IF made = <<>> THEN tensor[1].S ELSE made[Len(made)].S
SourceC == IF made = <<>> THEN "Contiguous" ELSE made[Len(made)].C

\* the entry of `made` for a view of type parameters S and C
Made(op, arg, S, C) ==
    [op |-> op, arg |-> arg, src |-> Source, srcS |-> SourceS,
     srcC |-> SourceC, S |-> S, C |-> C]

\* a transpose that reverses the shape and leaves the strides in place
transpose_shape_only(t) ==
    SliceLayout(t.D, Reverse(t.shape), t.strides, t.num_elements, 1)

\* Tensor::transpose: the view handed to as_view_unchecked
transpose(t) ==
    SliceLayout(t.D, Reverse(t.shape), Reverse(t.strides), t.num_elements, 1)

\* StridedDim<V> for UInt<U, B>: the quotient of U by V plus one when the
\* remainder of U by V is positive, U being the bits of the dimension above
\* its least significant bit B; Dyn on either side gives Dyn
StridedDim(dim, V) ==
    IF dim = Dyn \/ V = Dyn THEN Dyn
    ELSE LET U == dim \div 2
         IN  (U \div V) + (IF U % V > 0 THEN 1 ELSE 0)

\* StridedShape<Z>: StridedDim axis by axis
StridedShape(S, Z) == [i \in 1..Len(S) |-> StridedDim(S[i], Z[i])]

\* the bound Output: StaticShape of StridedShape: both shapes have the same
\* number of axes and every resulting dimension is a positive integer
IsStridedShape(S, Z) ==
    /\ Len(S) = Len(Z)
    /\ \A i \in 1..Len(S) : S[i] # Dyn /\ Z[i] # Dyn /\ StridedDim(S[i], Z[i]) >= 1

\* the bounds of StridedShapeDyn<Z>: the last axis is any StridedDim, the axes
\* before it form a StridedShape
IsStridedShapeDyn(S, Z) ==
    /\ Len(S) = Len(Z)
    /\ IsStridedShape(SubSeq(S, 1, Len(S) - 1), SubSeq(Z, 1, Len(Z) - 1))

\* x *= y over strides.iter_mut().zip(steps)
scaled_strides(strides, steps) ==
    [i \in 1..Len(strides) |->
        IF i <= Len(steps) THEN strides[i] * steps[i] ELSE strides[i]]

\* strides.iter().zip(ys).take_while(|(x, _)| x == 1).map(|(_, y)| y).product()
take_while_product(strides, ys) ==
    LET m == Min2(Len(strides), Len(ys))
        stop == {i \in 1..m : strides[i] # 1}
        k == IF stop = {} THEN m
             ELSE (CHOOSE i \in stop : \A j \in stop : i <= j) - 1
    IN  Product(SubSeq(ys, 1, k))

\* Tensor::stride::<Z>() of a statically shaped tensor t of type-level shape S
stride(t, S, Z) ==
    LET strides == scaled_strides(t.strides, Z)
        Output == StridedShape(S, Z)
    IN  SliceLayout("Static", Output, strides, NUM_ELEMENTS(Output),
                    take_while_product(strides, S))

\* the runtime shape of the dynamic stride: every extent is divided by the
\* entry of the new strides zipped with it, rounding up
strided_shape(shape, strides) ==
    [i \in 1..Len(shape) |->
        IF i <= Len(strides)
        THEN (shape[i] \div strides[i]) + Min2(shape[i] % strides[i], 1)
        ELSE shape[i]]

\* Tensor::stride::<Z>(strides) of a dynamically shaped tensor t
stride_dynamic(t, steps) ==
    LET strides == scaled_strides(t.strides, steps)
        shape == strided_shape(t.shape, strides)
    IN  SliceLayout("Dynamic", shape, strides, Product(shape),
                    take_while_product(strides, strides))

\* a reshape that lays the target shape out column-major
reshape_column_major(t, Z) ==
    SliceLayout("Static", Z, Reverse(intrinsic_strides_in_place(Reverse(Z))),
                NUM_ELEMENTS(Z), NUM_ELEMENTS(Z))

\* Tensor::reshape::<Z>() of a statically shaped contiguous tensor t
reshape(t, Z) ==
    SliceLayout("Static", Z, intrinsic_strides_in_place(Z),
                NUM_ELEMENTS(Z), NUM_ELEMENTS(Z))

\* Tensor::reshape::<Z>(shape) of a dynamically shaped contiguous tensor t,
\* past its assert_eq
reshape_dynamic(t, shape) ==
    LET num_elements == Product(shape)
    IN  SliceLayout("Dynamic", shape, intrinsic_strides_in_place(shape),
                    num_elements, num_elements)

\* Shape::runtime_compat: as many axes as the type-level shape and, on every
\* axis, Dim::runtime_eq (a static dimension equals the extent, Dyn accepts any)
runtime_compat(S, shape) ==
    /\ Len(S) = Len(shape)
    /\ \A i \in 1..Len(S) : S[i] = Dyn \/ S[i] = shape[i]

\* Same<Rhs>: the same number of axes and, on every axis, equal dimensions,
\* Dyn comparing equal to every dimension
Same(S, Srhs) ==
    /\ Len(S) = Len(Srhs)
    /\ \A i \in 1..Len(S) : S[i] = Srhs[i] \/ S[i] = Dyn \/ Srhs[i] = Dyn

\* ReprShape / ReprShapeDyn: ReprDim axis by axis, the left dimension unless
\* it is Dyn
ReprShapeDyn(S, Srhs) ==
    [i \in 1..Len(S) |-> IF S[i] = Dyn THEN Srhs[i] ELSE S[i]]

\* the bound Output: StaticShape of ReprShape
IsReprShape(S, Srhs) == \A i \in 1..Len(S) : ReprShapeDyn(S, Srhs)[i] # Dyn

\* an operand of a kernel: what its layout reports, the buffer it reads and
\* whether its layout is owned (Iter = slice::Chunks) or a SliceLayout view
\* (Iter = StridedChunks)
Operand(layout, data, owned) ==
    [layout |-> layout, data |-> data, owned |-> owned]

\* the slices a StridedChunks yields when next is called at most n times, each
\* with the index chunk_at computed for it, or the panic of chunk_at
RECURSIVE drain(_, _, _, _, _)
drain(layout, data, it, n, acc) ==
    IF n = 0 \/ it.dead THEN [panic |-> NoPanic, chunks |-> acc]
    ELSE LET index == linear_index(layout.strides, it.counter)
             m == Min2(Len(it.counter),
                       Min2(Len(it.step_sizes), Len(layout.shape)))
             a == advance(it.counter, it.step_sizes, layout.shape, m)
         IN  IF index + it.chunk_size > Len(data)
             THEN [panic |-> "range end index out of range for slice",
                   chunks |-> acc]
             ELSE drain(layout, data,
                        [it EXCEPT !.counter = a.counter, !.dead = a.dead],
                        n - 1,
                        Append(acc, [index |-> index,
                                     slice |-> SubSeq(data, index + 1,
                                                      index + it.chunk_size)]))

\* the first n items of operand.chunks(chunk_size)
OperandChunks(x, chunk_size, n) ==
    IF x.owned
    THEN LET c == SliceChunks(x.data, chunk_size)
         IN  [panic |-> NoPanic,
              chunks |-> [k \in 1..Min2(n, Len(c)) |->
                             [index |-> (k - 1) * chunk_size, slice |-> c[k]]]]
    ELSE drain(x.layout, x.data, StridedChunks_new(x.layout, chunk_size),
               n, <<>>)

\* <op>_unchecked of an owned self: the three chunk iterators are built at
\* chunk_size (slice::chunks panics on 0), then zipped; zip asks self, then
\* rhs, then out for their next item and stops at the first None
operation_unchecked(op, self, rhs, out) ==
    LET chunk_size == Min2(Len(self), rhs.layout.opt_chunk_size)
    IN  IF chunk_size = 0
        THEN [panic |-> "chunk size must be non-zero", out |-> out,
              chunk_size |-> 0, self_chunks |-> <<>>, rhs_chunks |-> <<>>]
        ELSE LET A == OperandChunks(Operand(<<>>, self, TRUE), chunk_size,
                                    Len(self)).chunks
                 n == Min2(Len(A), Len(SliceChunks(out, chunk_size)) + 1)
                 B == OperandChunks(rhs, chunk_size, n)
             IN  [panic |-> B.panic,
                  out |-> Kernel2(op,
                             [k \in 1..Len(A) |-> A[k].slice],
                             [k \in 1..Len(B.chunks) |-> B.chunks[k].slice],
                             out, chunk_size),
                  chunk_size |-> chunk_size,
                  self_chunks |-> A, rhs_chunks |-> B.chunks]

\* Reduction<Ax>: the shape with the axis of (0-starting) index Ax replaced by
\* U1; an index past the last axis leaves the shape as it is
Reduction(S, Ax) ==
    [i \in 1..Len(S) |-> IF i = Ax + 1 THEN 1 ELSE S[i]]

\* ReductionOptChunckSize<T, Ax>: from the last axis towards the first, the
\* product of the dimensions met before the axis Ax, where the recursion stops
ReductionOptChunckSize(S, Ax) ==
    IF Ax < Len(S) THEN Product(SubSeq(S, Ax + 2, Len(S))) ELSE Product(S)

\* At<Ax>: the dimension of the axis of index Ax, U1 past the last axis
At(S, Ax) ==
    IF Ax < Len(S) THEN S[Ax + 1] ELSE 1

\* the loop nest of sum_unchecked, one input chunk per step: step t (from 1)
\* belongs to the output chunk (t - 1) / (mid_loop_num * inner_loop_num) and
\* to the inner index j = (t - 1) % inner_loop_num; chunk_o.skip(j *
\* chunk_size_in).zip(chunk_i) adds the input chunk element by element
RECURSIVE sum_steps(_, _, _, _)
sum_steps(chunks_in, t, k, out) ==
    IF t > Len(chunks_in) THEN out
    ELSE LET c == (t - 1) \div (k.mid_loop_num * k.inner_loop_num)
             j == (t - 1) % k.inner_loop_num
             first == c * k.chunk_size_out
             end == Min2(Len(out), first + k.chunk_size_out)
             chunk_i == chunks_in[t].slice
             new == [q \in 1..Len(out) |->
                       LET u == q - (first + j * k.chunk_size_in)
                       IN  IF q <= end /\ u >= 1 /\ u <= Len(chunk_i)
                           THEN out[q] + chunk_i[u]
                           ELSE out[q]]
         IN  sum_steps(chunks_in, t + 1, k, new)

\* sum_unchecked: in_iter.next().unwrap() once per step of the loop nest over
\* out.chunks_mut(chunk_size_out)
sum_unchecked(x, k, out) ==
    LET total == Len(SliceChunks(out, k.chunk_size_out))
                     * k.mid_loop_num * k.inner_loop_num
        I == OperandChunks(x, k.chunk_size_in, total)
    IN  IF I.panic # NoPanic THEN [panic |-> I.panic, out |-> out]
        ELSE IF Len(I.chunks) < total
        THEN [panic |-> "called Option::unwrap() on a None value",
              out |-> out]
        ELSE [panic |-> NoPanic, out |-> sum_steps(I.chunks, 1, k, out)]

\* Tensor::sum::<Ax>() of a statically shaped operand x of type-level shape S
sum(x, S, Ax) ==
    LET chunk_size_out == ReductionOptChunckSize(S, Ax)
        chunk_size_in == Min2(x.layout.opt_chunk_size, chunk_size_out)
        out == Zeros(NUM_ELEMENTS(Reduction(S, Ax)))
    IN  IF chunk_size_in = 0
        THEN [panic |-> "attempt to divide by zero", out |-> out]
        ELSE sum_unchecked(x,
                 [chunk_size_in |-> chunk_size_in,
                  chunk_size_out |-> chunk_size_out,
                  mid_loop_num |-> At(S, Ax),
                  inner_loop_num |-> chunk_size_out \div chunk_size_in],
                 out)

\* the tensor an elementwise operation returns: contiguous and owned
\* the loop of PartialEq::eq over the zipped chunk iterators: zip asks self,
\* then other, for the next chunk and stops at the first None; the first pair
\* of chunks with a differing element returns false
RECURSIVE eq_steps(_, _, _)
eq_steps(A, B, k) ==
    IF k > Len(A.chunks)
    THEN [panic |-> A.panic, value |-> A.panic = NoPanic]
    ELSE IF k > Len(B.chunks)
    THEN [panic |-> B.panic, value |-> B.panic = NoPanic]
    ELSE IF A.chunks[k].slice # B.chunks[k].slice
    THEN [panic |-> NoPanic, value |-> FALSE]
    ELSE eq_steps(A, B, k + 1)

\* PartialEq for SliceLayout
eq(self, other) ==
    LET chunk_size == Min2(self.layout.opt_chunk_size,
                           other.layout.opt_chunk_size)
        n == Product(self.layout.shape) + 1
    IN  IF self.layout.shape # other.layout.shape
        THEN [panic |-> NoPanic, value |-> FALSE]
        ELSE eq_steps(drain(self.layout, self.data,
                            StridedChunks_new(self.layout, chunk_size), n, <<>>),
                      drain(other.layout, other.data,
                            StridedChunks_new(other.layout, chunk_size), n, <<>>),
                      1)

Output(D, S, shape, data) ==
    [D |-> D, S |-> S, shape |-> shape, data |-> data, C |-> "Contiguous"]

\* nothing has been constructed yet
Init ==
    /\ nodes = <<>>
    /\ handles = <<>>
    /\ stack = <<>>
    /\ panicked = NoPanic
    /\ calls = 0
    /\ clones = 0
    /\ root = <<>>
    /\ tensor = <<>>
    /\ view = <<>>
    /\ iter = <<>>
    /\ yielded = <<>>
    /\ outcome = "none"
    /\ lpanic = NoPanic
    /\ made = <<>>
    /\ last = <<>>
    /\ result = <<>>
    /\ kernel = <<>>
    /\ cells = <<>>
    /\ tasks = <<>>
    /\ accesses = {}

\* TryFrom<Vec<T>> for a statically shaped tensor
try_from ==
    /\ lpanic = NoPanic /\ tensor = <<>>
    /\ \E S \in Shapes, n \in 1..MaxVecLen :
          /\ last' = <<[op |-> "try_from", D |-> "Static", S |-> S,
                         v |-> VecData(n)]>>
          /\ IF NUM_ELEMENTS(S) # n
             THEN /\ outcome' = "InvalidData"
                  /\ UNCHANGED tensor
             ELSE /\ outcome' = "Ok"
                  /\ tensor' = <<StaticTensor(S, VecData(n))>>
    /\ UNCHANGED <<view, iter, yielded, lpanic, made, result>>
    /\ UNCHANGED <<gvars, kvars>>

\* TryFrom<Vec<T>> for a dynamically shaped tensor of type-level shape S
try_from_dynamic ==
    /\ lpanic = NoPanic /\ tensor = <<>>
    /\ \E S \in Shapes \cup {[Z EXCEPT ![1] = Dyn] : Z \in Shapes},
          n \in 1..MaxVecLen :
          LET R == Reduction0(S)
          IN  /\ last' = <<[op |-> "try_from", D |-> "Dynamic", S |-> S,
                             v |-> VecData(n)]>>
              /\ IF n % NUM_ELEMENTS(R) # 0
                 THEN /\ outcome' = "InvalidData"
                      /\ UNCHANGED tensor
                 ELSE /\ outcome' = "Ok"
                      /\ tensor' = <<DynamicTensor(S,
                             [R EXCEPT ![1] = n \div NUM_ELEMENTS(R)],
                             intrinsic_strides_in_place(R), VecData(n))>>
    /\ UNCHANGED <<view, iter, yielded, lpanic, made, result>>
    /\ UNCHANGED <<gvars, kvars>>

\* broadcast of the statically shaped tensor to a static shape Z the type
\* system accepts
Broadcast ==
    /\ lpanic = NoPanic /\ tensor # <<>> /\ view = <<>>
    /\ tensor[1].D = "Static"
    /\ \E Z \in Shapes :
          /\ BroadcastOutput(tensor[1].S, Z)
          /\ view' = <<broadcast(tensor[1], Z)>>
          /\ made' = <<Made("broadcast", Z, Z, "Strided")>>
    /\ outcome' = "Ok"
    /\ UNCHANGED <<tensor, iter, yielded, lpanic, last, result>>
    /\ UNCHANGED <<gvars, kvars>>

\* broadcast of the dynamically shaped tensor to the runtime shape the caller
\* passes. len - external_strides.len() is an unsigned subtraction: when the
\* target is shorter than the source it panics in a build with overflow checks
\* and wraps to a count larger than len in a build without them.
BroadcastDynamic ==
    /\ lpanic = NoPanic /\ tensor # <<>> /\ view = <<>>
    /\ tensor[1].D = "Dynamic"
    /\ \E shape \in Shapes :
          IF ~RuntimeBroadcastable(shape, tensor[1].shape)
          THEN /\ lpanic' = "Cannot broadcast shapes"
               /\ UNCHANGED <<view, outcome, made>>
          ELSE IF Len(shape) < Len(tensor[1].shape)
          THEN \/ /\ lpanic' = "attempt to subtract with overflow"
                  /\ UNCHANGED <<view, outcome, made>>
               \/ /\ view' = <<broadcast_dynamic(tensor[1], shape, Len(shape))>>
                  /\ made' = <<Made("broadcast", shape, shape, "Strided")>>
                  /\ outcome' = "Ok"
                  /\ UNCHANGED lpanic
          ELSE /\ view' = <<broadcast_dynamic(tensor[1], shape,
                                  Len(shape) - Len(tensor[1].shape))>>
               /\ made' = <<Made("broadcast", shape, shape, "Strided")>>
               /\ outcome' = "Ok"
               /\ UNCHANGED lpanic
    /\ UNCHANGED <<tensor, iter, yielded, last, result>>
    /\ UNCHANGED <<gvars, kvars>>

\* Layout::chunks of the view: a fresh StridedChunks
chunks ==
    /\ lpanic = NoPanic /\ view # <<>> /\ iter = <<>>
    /\ \E chunk_size \in 0..view[1].num_elements :
          iter' = <<StridedChunks_new(view[1], chunk_size)>>
    /\ yielded' = <<>>
    /\ UNCHANGED <<tensor, view, outcome, lpanic, made, last, result>>
    /\ UNCHANGED <<gvars, kvars>>

\* StridedChunks::next
next ==
    /\ lpanic = NoPanic /\ iter # <<>>
    /\ LET it == iter[1]
           index == linear_index(view[1].strides, it.counter)
           m == Min2(Len(it.counter), Min2(Len(it.step_sizes), Len(view[1].shape)))
           a == advance(it.counter, it.step_sizes, view[1].shape, m)
       IN  IF it.dead
           THEN /\ outcome' = "None"
                /\ UNCHANGED <<iter, yielded, lpanic>>
           ELSE IF index + it.chunk_size > Len(tensor[1].data)
           THEN /\ lpanic' = "range end index out of range for slice"
                /\ UNCHANGED <<iter, yielded, outcome>>
           ELSE /\ outcome' = "Some"
                /\ yielded' = Append(yielded,
                       [index |-> index,
                        slice |-> SubSeq(tensor[1].data, index + 1,
                                         index + it.chunk_size)])
                /\ iter' = <<[it EXCEPT !.counter = a.counter, !.dead = a.dead]>>
                /\ UNCHANGED lpanic
    /\ UNCHANGED <<tensor, view, made, last, result>>
    /\ UNCHANGED <<gvars, kvars>>

\* Tensor::default() of a StackTensor of shape S
default ==
    /\ lpanic = NoPanic /\ tensor = <<>>
    /\ \E S \in Shapes :
          /\ tensor' = <<StackTensor(S)>>
          /\ last' = <<[op |-> "default", D |-> "Static", S |-> S]>>
    /\ UNCHANGED <<view, iter, yielded, outcome, lpanic, made, result>>
    /\ UNCHANGED <<gvars, kvars>>

\* Tensor::fill(value, shape) of a DynamicTensor: HeapLayout::fill
fill ==
    /\ lpanic = NoPanic /\ tensor = <<>>
    /\ \E shape \in Shapes :
          LET l == HeapLayout_fill(FillValue, shape)
              S == [shape EXCEPT ![1] = Dyn]
          IN  /\ tensor' = <<DynamicTensor(S, l.shape, l.strides, l.data)>>
              /\ last' = <<[op |-> "fill", D |-> "Dynamic", S |-> S,
                             shape |-> shape]>>
    /\ UNCHANGED <<view, iter, yielded, outcome, lpanic, made, result>>
    /\ UNCHANGED <<gvars, kvars>>

\* stride::<Z>() of the statically shaped tensor or view
Stride ==
    /\ lpanic = NoPanic /\ tensor # <<>> /\ iter = <<>>
    /\ Len(made) < MaxViews
    /\ Source.D = "Static"
    /\ \E Z \in Shapes :
          /\ IsStridedShape(SourceS, Z)
          /\ view' = <<stride(Source, SourceS, Z)>>
          /\ made' = Append(made, Made("stride", Z, StridedShape(SourceS, Z),
                                       "Strided"))
    /\ UNCHANGED <<tensor, iter, yielded, outcome, lpanic, last, result>>
    /\ UNCHANGED <<gvars, kvars>>

\* stride::<Z>(strides) of the dynamically shaped tensor or view; a zero among
\* the new strides makes the division of the extent panic
StrideDynamic ==
    /\ lpanic = NoPanic /\ tensor # <<>> /\ iter = <<>>
    /\ Len(made) < MaxViews
    /\ Source.D = "Dynamic"
    /\ \E Z \in Shapes, strides \in Shapes :
          /\ IsStridedShapeDyn(SourceS, Z)
          /\ Len(strides) = Len(Source.shape)
          /\ LET new == scaled_strides(Source.strides, strides)
             IN  IF \E i \in 1..Min2(Len(new), Len(Source.shape)) : new[i] = 0
                 THEN /\ lpanic' = "attempt to divide by zero"
                      /\ UNCHANGED <<view, made>>
                 ELSE /\ view' = <<stride_dynamic(Source, strides)>>
                      /\ made' = Append(made,
                             Made("stride", strides, StridedShape(SourceS, Z),
                                  "Strided"))
                      /\ UNCHANGED lpanic
    /\ UNCHANGED <<tensor, iter, yielded, outcome, last, result>>
    /\ UNCHANGED <<gvars, kvars>>

\* transpose() of the tensor or view
Transpose ==
    /\ lpanic = NoPanic /\ tensor # <<>> /\ iter = <<>>
    /\ Len(made) < MaxViews
    /\ view' = <<transpose(Source)>>
    /\ made' = Append(made, Made("transpose", <<>>, Reverse(SourceS),
                                 Transposed(SourceC)))
    /\ UNCHANGED <<tensor, iter, yielded, outcome, lpanic, last, result>>
    /\ UNCHANGED <<gvars, kvars>>

\* reshape::<Z>() of the statically shaped contiguous tensor or view: the
\* bound SameNumElements admits the shapes Z of as many elements as S
Reshape ==
    /\ lpanic = NoPanic /\ tensor # <<>> /\ iter = <<>>
    /\ Len(made) < MaxViews
    /\ Source.D = "Static" /\ SourceC = "Contiguous"
    /\ \E Z \in Shapes :
          /\ NUM_ELEMENTS(SourceS) = NUM_ELEMENTS(Z)
          /\ view' = <<reshape(Source, Z)>>
          /\ made' = Append(made, Made("reshape", Z, Z, "Contiguous"))
    /\ UNCHANGED <<tensor, iter, yielded, outcome, lpanic, last, result>>
    /\ UNCHANGED <<gvars, kvars>>

\* reshape::<Z>(shape) of the dynamically shaped contiguous tensor or view;
\* the type-level shape Z is the caller's choice
ReshapeDynamic ==
    /\ lpanic = NoPanic /\ tensor # <<>> /\ iter = <<>>
    /\ Len(made) < MaxViews
    /\ Source.D = "Dynamic" /\ SourceC = "Contiguous"
    /\ \E shape \in Shapes :
          IF Product(shape) # Product(Source.shape)
          THEN /\ lpanic' = "Cannot reshape Tensor: Differing number of elements."
               /\ UNCHANGED <<view, made>>
          ELSE /\ \E Z \in {shape, [shape EXCEPT ![1] = Dyn]} :
                     made' = Append(made, Made("reshape", shape, Z, "Contiguous"))
               /\ view' = <<reshape_dynamic(Source, shape)>>
               /\ UNCHANGED lpanic
    /\ UNCHANGED <<tensor, iter, yielded, outcome, last, result>>
    /\ UNCHANGED <<gvars, kvars>>

\* a.add(&b) of two statically shaped tensors of the same type-level shape:
\* b is the tensor or its latest view, a an owned tensor of b's shape
Add ==
    /\ lpanic = NoPanic /\ tensor # <<>> /\ iter = <<>> /\ result = <<>>
    /\ Source.D = "Static"
    /\ LET S == SourceS
           a == StaticTensor(S, SelfData(NUM_ELEMENTS(S)))
           b == Operand(Source, tensor[1].data, view = <<>>)
           r == operation_unchecked("add", a.data, b, Zeros(NUM_ELEMENTS(S)))
       IN  /\ last' = <<[op |-> "add", self |-> a, rhs |-> b,
                          chunk_size |-> r.chunk_size,
                          self_chunks |-> r.self_chunks,
                          rhs_chunks |-> r.rhs_chunks]>>
           /\ IF r.panic # NoPanic
              THEN /\ lpanic' = r.panic
                   /\ UNCHANGED result
              ELSE /\ result' = <<Output("Static", S, S, r.out)>>
                   /\ UNCHANGED lpanic
    /\ UNCHANGED <<tensor, view, iter, yielded, outcome, made>>
    /\ UNCHANGED <<gvars, kvars>>

\* t.sum::<Ax>() of the statically shaped tensor or its latest view
Sum ==
    /\ lpanic = NoPanic /\ tensor # <<>> /\ iter = <<>> /\ result = <<>>
    /\ Source.D = "Static"
    /\ \E Ax \in 0..(MaxRank - 1) :
          LET S == SourceS
              x == Operand(Source, tensor[1].data, view = <<>>)
              r == sum(x, S, Ax)
          IN  /\ last' = <<[op |-> "sum", Ax |-> Ax, src |-> x, S |-> S,
                             panic |-> r.panic]>>
              /\ IF r.panic # NoPanic
                 THEN /\ lpanic' = r.panic
                      /\ UNCHANGED result
                 ELSE /\ result' = <<Output("Static", Reduction(S, Ax),
                                             Reduction(S, Ax), r.out)>>
                      /\ UNCHANGED lpanic
    /\ UNCHANGED <<tensor, view, iter, yielded, outcome, made>>
    /\ UNCHANGED <<gvars, kvars>>

\* view == other: the view is compared with a view of another tensor of the
\* same type, made the same way or transposed once more; the other tensor
\* holds the same data or differs from it in the element at one place
Eq ==
    /\ lpanic = NoPanic /\ view # <<>> /\ iter = <<>> /\ result = <<>>
    /\ \E transposed \in BOOLEAN, place \in 0..Len(tensor[1].data) :
          LET self == Operand(view[1], tensor[1].data, FALSE)
              data == IF place = 0 THEN tensor[1].data
                      ELSE [tensor[1].data EXCEPT ![place] = @ + 1]
              other == Operand(IF transposed THEN transpose(view[1])
                               ELSE view[1], data, FALSE)
              r == eq(self, other)
          IN  /\ last' = <<[op |-> "eq", self |-> self, rhs |-> other,
                             panic |-> r.panic]>>
              /\ IF r.panic # NoPanic
                 THEN /\ lpanic' = r.panic
                      /\ UNCHANGED result
                 ELSE /\ result' = <<[value |-> r.value]>>
                      /\ UNCHANGED lpanic
    /\ UNCHANGED <<tensor, view, iter, yielded, outcome, made>>
    /\ UNCHANGED <<gvars, kvars>>

\* variant: only the number of axes is compared
assert_shape_eq_rank(lhs, rhs) ==
    IF Len(lhs) # Len(rhs) THEN "Tensors must have same shape" ELSE NoPanic

\* assert_shape_eq: the panic it raises, or NoPanic
assert_shape_eq(lhs, rhs) ==
    IF lhs # rhs THEN "Tensors must have same shape" ELSE NoPanic

\* the owned tensors the caller combines with the dynamically shaped tensor
Others ==
    {StaticTensor(S, SelfData(NUM_ELEMENTS(S))) : S \in Shapes}
    \cup {DynamicTensor([shape EXCEPT ![1] = Dyn], shape,
                        intrinsic_strides_in_place(shape),
                        SelfData(Product(shape))) : shape \in Shapes}

\* add / add_dynamic with at least one dynamically shaped operand: the owned
\* dynamically shaped tensor on either side of another owned tensor. add
\* returns a static tensor of the representative shape, add_dynamic a dynamic
\* tensor allocated with self's runtime shape.
AddCoerced ==
    /\ lpanic = NoPanic /\ tensor # <<>> /\ view = <<>> /\ result = <<>>
    /\ tensor[1].D = "Dynamic"
    /\ \E other \in Others, swap \in BOOLEAN, dynamic \in BOOLEAN :
          LET self == IF swap THEN other ELSE tensor[1]
              rhs == IF swap THEN tensor[1] ELSE other
              Sout == IF self.D = "Static" THEN self.S
                      ELSE IF rhs.D = "Static" THEN rhs.S
                      ELSE ReprShapeDyn(self.S, rhs.S)
          IN  /\ Same(self.S, rhs.S)
              /\ dynamic => other.D = "Dynamic"
              /\ ~dynamic => IsReprShape(self.S, rhs.S)
              /\ LET out == IF dynamic
                             THEN HeapLayout_fill(0, self.shape).data
                             ELSE Zeros(NUM_ELEMENTS(Sout))
                     b == Operand(Layout(rhs), rhs.data, TRUE)
                     r == operation_unchecked("add", self.data, b, out)
                     op == IF dynamic THEN "add_dynamic" ELSE "add"
                 IN  IF assert_shape_eq(self.shape, rhs.shape) # NoPanic
                     THEN /\ lpanic' = assert_shape_eq(self.shape, rhs.shape)
                          /\ last' = <<[op |-> op, self |-> self, rhs |-> b,
                                         chunk_size |-> 0,
                                         self_chunks |-> <<>>,
                                         rhs_chunks |-> <<>>]>>
                          /\ UNCHANGED result
                     ELSE /\ last' = <<[op |-> op, self |-> self, rhs |-> b,
                                         chunk_size |-> r.chunk_size,
                                         self_chunks |-> r.self_chunks,
                                         rhs_chunks |-> r.rhs_chunks]>>
                          /\ IF r.panic # NoPanic
                             THEN /\ lpanic' = r.panic
                                  /\ UNCHANGED result
                             ELSE /\ result' = <<IF dynamic
                                        THEN Output("Dynamic", Sout, self.shape,
                                                    r.out)
                                        ELSE Output("Static", Sout, Sout, r.out)>>
                                  /\ UNCHANGED lpanic
    /\ UNCHANGED <<tensor, view, iter, yielded, outcome, made>>
    /\ UNCHANGED <<gvars, kvars>>

NextLayout ==
    \/ Add
    \/ AddCoerced
    \/ Sum
    \/ try_from
    \/ try_from_dynamic
    \/ default
    \/ fill
    \/ Stride
    \/ StrideDynamic
    \/ Transpose
    \/ Reshape
    \/ ReshapeDynamic
    \/ Broadcast
    \/ BroadcastDynamic
    \/ chunks
    \/ next

SpecLayout == Init /\ [][NextLayout]_vars

\* the owned tensors, the views made of them and the comparison of views
NextEq ==
    \/ try_from
    \/ try_from_dynamic
    \/ default
    \/ fill
    \/ Stride
    \/ StrideDynamic
    \/ Transpose
    \/ Reshape
    \/ ReshapeDynamic
    \/ Broadcast
    \/ BroadcastDynamic
    \/ Eq

SpecEq == Init /\ [][NextEq]_vars

\* ------------------------------------------------------------------------
\* One chunk of an elementwise kernel under rayon's parallel map
\* ------------------------------------------------------------------------

\* the longest slice a chunk iterator hands to the kernel
MaxChunk == 3

\* the number of items of par_iter().zip(..): the shortest of the slices
zip_len(k) ==
    IF k.op = "binary"
    THEN Min2(Len(k.self), Min2(Len(k.rhs), Len(k.out)))
    ELSE Min2(Len(k.self), Len(k.rhs))

\* a variant in which every task writes the first cell
task_cells_first(op, i) ==
    [reads |-> {<<"self", i>>, <<"rhs", i>>},
     write |-> <<IF op = "binary" THEN "out" ELSE "self", 1>>]

\* the cells the closure of for_each touches for the i-th zipped item: the
\* binary kernel computes *z = x.op(*y), the in-place kernel x.op_assign(*y)
task_cells(op, i) ==
    [reads |-> {<<"self", i>>, <<"rhs", i>>},
     write |-> <<IF op = "binary" THEN "out" ELSE "self", i>>]

\* the caller's kernel reaches the parallel map of one chunk: the binary
\* kernel with slices of self, rhs and out, the in-place kernel with slices
\* of self and rhs
Launch ==
    /\ kernel = <<>>
    /\ \E op \in {"binary", "inplace"}, ls \in 1..MaxChunk, lr \in 1..MaxChunk,
          lo \in 1..MaxChunk :
          LET k == [op |-> op, self |-> SelfData(ls), rhs |-> VecData(lr),
                    out |-> IF op = "binary" THEN Zeros(lo) ELSE <<>>]
          IN  /\ op = "inplace" => lo = 1
              /\ kernel' = <<k>>
              /\ cells' = <<[self |-> k.self, rhs |-> k.rhs, out |-> k.out]>>
              /\ tasks' = [i \in 1..zip_len(k) |-> [pc |-> "ready", x |-> 0, y |-> 0]]
    /\ UNCHANGED accesses
    /\ UNCHANGED <<gvars, lvars>>

\* the task of the i-th item reads its two operands
Load ==
    /\ kernel # <<>>
    /\ \E i \in 1..Len(tasks) :
          /\ tasks[i].pc = "ready"
          /\ tasks' = [tasks EXCEPT ![i] = [pc |-> "loaded",
                                             x |-> cells[1].self[i],
                                             y |-> cells[1].rhs[i]]]
          /\ accesses' = accesses \cup
                 {[task |-> i, kind |-> "read", cell |-> c] :
                      c \in task_cells(kernel[1].op, i).reads}
    /\ UNCHANGED <<kernel, cells>>
    /\ UNCHANGED <<gvars, lvars>>

\* the task of the i-th item writes its result
Store ==
    /\ kernel # <<>>
    /\ \E i \in 1..Len(tasks) :
          /\ tasks[i].pc = "loaded"
          /\ LET w == task_cells(kernel[1].op, i).write
                 v == tasks[i].x + tasks[i].y
             IN  /\ cells' = <<[cells[1] EXCEPT ![w[1]][w[2]] = v]>>
                 /\ accesses' = accesses \cup
                        {[task |-> i, kind |-> "write", cell |-> w]}
          /\ tasks' = [tasks EXCEPT ![i].pc = "done"]
    /\ UNCHANGED kernel
    /\ UNCHANGED <<gvars, lvars>>

NextKernel ==
    \/ Launch
    \/ Load
    \/ Store

SpecKernel == Init /\ [][NextKernel]_vars

\* the computation graph of statically shaped variables
Next ==
    \/ New
    \/ Clone
    \/ BinaryOp
    \/ ScalarOp
    \/ UnaryOp
    \/ MulAddOp
    \/ Backward
    \/ Accumulate
    \/ Invoke
    \/ Dispatch
    \/ Return

Spec == Init /\ [][Next]_vars

\* leaves with a dynamic shape on either side; the Variable operations take
\* statically shaped operands only, so these variables stay leaves
NextDyn ==
    \/ New
    \/ NewDynamic
    \/ Clone
    \/ Backward
    \/ AssertShape
    \/ Accumulate
    \/ Invoke
    \/ Return

SpecDyn == Init /\ [][NextDyn]_vars

\* A call of backward is an ordinary function call on the caller's thread:
\* once it is entered, the thread goes on executing its statements, so the
\* steps of a started call are taken as long as one of them is possible.
\* The caller is not obliged to build more or to call backward at all.
BackwardStep ==
    \/ Accumulate
    \/ Invoke
    \/ Dispatch
    \/ Return

\* the graphs of at most MaxRunNodes nodes, with every operation
MaxRunNodes == 4

NextRun ==
    \/ Len(nodes) < MaxRunNodes /\ New
    \/ Len(nodes) < MaxRunNodes /\ BinaryOp
    \/ Len(nodes) < MaxRunNodes /\ ScalarOp
    \/ Len(nodes) < MaxRunNodes /\ UnaryOp
    \/ Len(nodes) < MaxRunNodes /\ MulAddOp
    \/ Clone
    \/ Backward
    \/ Accumulate
    \/ Invoke
    \/ Dispatch
    \/ Return

SpecRun == Init /\ [][NextRun]_vars /\ WF_vars(BackwardStep)

\* ------------------------------------------------------------------------
\* Properties of the computation graph
\* ------------------------------------------------------------------------

\* elementwise sum and product of two tensors of the same length
Plus(x, y) == [i \in 1..Len(x) |-> x[i] + y[i]]
Times(x, y) == [i \in 1..Len(x) |-> x[i] * y[i]]

\* an accumulator option after k additions of g
PlusK(acc, g, k) ==
    IF acc = None THEN None ELSE [i \in 1..Len(acc) |-> acc[i] + k * g[i]]

\* the caller's backward call has returned
Completed == root # <<>> /\ stack = <<>> /\ panicked = NoPanic

Slots(n, x) == Cardinality({i \in DOMAIN nodes[n].operands : nodes[n].operands[i] = x})

\* C1: backward(g) first adds g elementwise into the node's accumulator when
\* the node is tracking (the accumulator of a detached node stays None) and
\* only then invokes the replay closure, with g, exactly once, tracking or not:
\* a call that has not accumulated yet has not invoked the closure and still
\* sees the accumulator it found; a call about to invoke or inside the closure
\* has accumulated exactly g (once if tracking, never if detached); a call
\* inside its closure has invoked it once, on g.
C1_AccumulateThenInvoke ==
    \A i \in 1..Len(stack) :
        LET f == stack[i]
            tracking == f.before # None
        IN  /\ f.pc \in {"assert", "accumulate"} =>
                 /\ f.accumulated = 0 /\ f.invoked = 0
                 /\ nodes[f.node].grad = f.before
            /\ f.pc \in {"invoke", "closure"} =>
                 /\ f.accumulated = (IF tracking THEN 1 ELSE 0)
                 /\ nodes[f.node].grad = (IF tracking THEN Plus(f.before, f.grad) ELSE None)
            /\ f.pc = "invoke" => f.invoked = 0
            /\ f.pc = "closure" =>
                 /\ f.invoked = 1
                 /\ f.out = backward_closure(f.node, f.grad)

\* a tracking node whose closure is running a call on a detached operand that
\* has itself reached its closure
C1_Witness ==
    \E i \in 1..Len(stack), j \in 1..Len(stack) :
        /\ i < j
        /\ stack[i].pc = "closure" /\ stack[i].before # None
        /\ stack[i].accumulated = 1 /\ stack[i].invoked = 1
        /\ stack[j].pc = "closure" /\ stack[j].before = None
        /\ stack[j].accumulated = 0 /\ stack[j].invoked = 1

\* C2: for c = a + b built from two leaf handles, one completed c.backward(g)
\* has added exactly g, once per operand handle, to the accumulator of every
\* tracking operand and has left a detached operand's accumulator None; with
\* a fresh tracked a and a detached b, a.grad() = g and b.grad() = None.
C2_AddBackward ==
    (Completed /\ nodes[root[1].node].closure = "add"
       /\ \A i \in 1..2 : nodes[root[1].node].operands[i] \in Leaves) =>
        \A i \in 1..2 :
            LET x == nodes[root[1].node].operands[i]
            IN  nodes[x].grad =
                    PlusK(root[1].pre[x], root[1].grad, Slots(root[1].node, x))

C2_Witness ==
    /\ Completed /\ nodes[root[1].node].closure = "add"
    /\ LET a == nodes[root[1].node].operands[1]
           b == nodes[root[1].node].operands[2]
       IN  /\ a \in Leaves /\ b \in Leaves /\ a # b
           /\ root[1].pre[a] = Zeros(2) /\ nodes[a].grad = root[1].grad
           /\ nodes[b].grad = None

\* the shape r = (a * b) + c over three distinct leaves
IsMulThenAdd(r) ==
    /\ nodes[r].closure = "add"
    /\ nodes[nodes[r].operands[1]].closure = "mul"
    /\ LET m == nodes[r].operands[1]
           a == nodes[m].operands[1]
           b == nodes[m].operands[2]
           c == nodes[r].operands[2]
       IN  /\ {a, b, c} \subseteq Leaves
           /\ a # b /\ a # c /\ b # c

\* C3: for r = (a * b) + c over distinct leaves, a completed r.backward(g)
\* passes g unchanged through the addition node to the product node, and the
\* multiplication closure sends g times the other operand's value to each
\* operand: a tracking a ends with g (*) b.value added to its accumulator (and
\* a tracking b with g (*) a.value); with b and c detached, a.grad() = g (*) b.
C3_MulThenAdd ==
    (Completed /\ IsMulThenAdd(root[1].node)) =>
        LET r == root[1].node
            m == nodes[r].operands[1]
            a == nodes[m].operands[1]
            b == nodes[m].operands[2]
            g == root[1].grad
        IN  /\ nodes[m].grad = PlusK(root[1].pre[m], g, 1)
            /\ nodes[a].grad = PlusK(root[1].pre[a], Times(g, nodes[b].value), 1)
            /\ nodes[b].grad = PlusK(root[1].pre[b], Times(g, nodes[a].value), 1)

C3_Witness ==
    /\ Completed /\ IsMulThenAdd(root[1].node)
    /\ LET r == root[1].node
           m == nodes[r].operands[1]
           a == nodes[m].operands[1]
           b == nodes[m].operands[2]
           c == nodes[r].operands[2]
       IN  /\ nodes[b].grad = None /\ nodes[c].grad = None
           /\ root[1].pre[a] = Zeros(2)
           /\ nodes[a].grad = Times(root[1].grad, nodes[b].value)
           /\ nodes[a].grad # root[1].grad

\* C4: the tracking mode of a node is the one it was created with: whatever
\* operations, clones and backward calls have happened, a node created
\* without an accumulator has grad() = None and a node created with one has
\* grad() = Some.
C4_TrackingFixed ==
    \A n \in NodeIds : (grad(n) = None) <=> (nodes[n].created = None)

\* a completed backward that went through a detached leaf and changed the
\* accumulator of a tracking one
C4_Witness ==
    /\ Completed
    /\ \E x \in Leaves, y \in Leaves :
          /\ Slots(root[1].node, x) > 0 /\ Slots(root[1].node, y) > 0
          /\ nodes[x].created = None /\ grad(x) = None
          /\ nodes[y].created # None /\ grad(y) # nodes[y].created

\* C5: the node a Variable operation returns was constructed with a zeroed
\* accumulator iff at least one of its operands is tracking, and with None
\* when none is.
C5_ResultAccumulator ==
    \A n \in OpNodes :
        nodes[n].created =
            IF \E i \in DOMAIN nodes[n].operands : grad(nodes[n].operands[i]) # None
            THEN Zeros(Product(nodes[n].shape))
            ELSE None

\* a binary result that tracks because of its second operand only, a mul_add
\* result that tracks because of its third operand only, or a detached result
C5_Witness ==
    /\ \E n \in OpNodes :
          /\ Len(nodes[n].operands) = 2
          /\ grad(nodes[n].operands[1]) = None
          /\ grad(nodes[n].operands[2]) # None
          /\ nodes[n].created = Zeros(2)
    /\ \E n \in OpNodes :
          /\ \A i \in DOMAIN nodes[n].operands : grad(nodes[n].operands[i]) = None
          /\ nodes[n].created = None

\* the nodes reachable from the closures of the nodes in S in at most k steps
RECURSIVE Captured(_, _)
Captured(S, k) ==
    IF k = 0 THEN S
    ELSE Captured(S \cup UNION {{nodes[n].operands[i] : i \in DOMAIN nodes[n].operands} : n \in S},
                  k - 1)

\* C6: the graph of the operand handles captured by the replay closures is
\* acyclic: every operand a node's closure captured was created before the
\* node, and no node is reachable from its own closure.
C6_Acyclic ==
    \A n \in NodeIds :
        /\ \A i \in DOMAIN nodes[n].operands : nodes[n].operands[i] < n
        /\ n \notin Captured({nodes[n].operands[i] : i \in DOMAIN nodes[n].operands},
                             Len(nodes))

\* a node that captured two handles of one operation result
C6_Witness ==
    \E n \in OpNodes :
        /\ Len(nodes[n].operands) = 2
        /\ nodes[n].operands[1] = nodes[n].operands[2]
        /\ nodes[n].operands[1] \in OpNodes

\* C7: backward(g) on a variable with a dynamic shape on either side, with g's
\* runtime shape different from the value's, fails with the assertion
\* 'Variable value and backward gradient must have the same shape' before the
\* accumulator is modified and before the closure is invoked: no call with
\* mismatched shapes gets past the assertion, and the assertion failure leaves
\* the accumulator the call found and has invoked nothing.
C7_ShapeAssertion ==
    /\ \A i \in 1..Len(stack) :
          (IsDyn(stack[i].node) /\ nodes[stack[i].node].shape # stack[i].gshape) =>
              /\ stack[i].pc = "assert"
              /\ stack[i].accumulated = 0 /\ stack[i].invoked = 0
              /\ nodes[stack[i].node].grad = stack[i].before
    /\ panicked # NoPanic =>
          /\ panicked = "Variable value and backward gradient must have the same shape"
          /\ IsDyn(Top.node) /\ nodes[Top.node].shape # Top.gshape
          /\ \A n \in DOMAIN root[1].pre : nodes[n].grad = root[1].pre[n]

\* the assertion failed on a tracking variable
C7_Witness ==
    /\ panicked = "Variable value and backward gradient must have the same shape"
    /\ Top.before # None
    /\ nodes[Top.node].grad = Zeros(2)

\* ------------------------------------------------------------------------
\* Properties of the views and of the chunk iterator
\* ------------------------------------------------------------------------

\* the target keeps or expands every axis of the source and may add leading axes
Expands(source_shape, target_shape) ==
    /\ Len(source_shape) <= Len(target_shape)
    /\ \A j \in 0..(Len(source_shape) - 1) :
          LET x == source_shape[Len(source_shape) - j]
              y == target_shape[Len(target_shape) - j]
          IN  x = y \/ x = 1

\* the innermost axis with stride 0, or 0 when no stride is 0
InnermostZero(strides) ==
    LET zero == {i \in 1..Len(strides) : strides[i] = 0}
    IN  IF zero = {} THEN 0 ELSE CHOOSE i \in zero : \A k \in zero : k <= i

\* C8: broadcast, static or dynamic, returns a view whose stride is 0 on every
\* expanded size-1 axis and on every new leading axis, and whose opt_chunk_size
\* is the product of the target extents inner to the innermost zero-stride
\* axis (the element count when no stride is 0).
C8_BroadcastView ==
    (view # <<>> /\ made[Len(made)].op = "broadcast"
       /\ Expands(tensor[1].shape, view[1].shape)) =>
        LET v == view[1]
            lead == Len(v.shape) - Len(tensor[1].shape)
            z == InnermostZero(v.strides)
        IN  /\ \A i \in 1..Len(v.shape) :
                  (i <= lead \/ (tensor[1].shape[i - lead] = 1 /\ v.shape[i] > 1))
                      => v.strides[i] = 0
            /\ v.opt_chunk_size =
                  IF z = 0 THEN Product(v.shape)
                  ELSE Product(SubSeq(v.shape, z + 1, Len(v.shape)))

\* the logical positions of a shape
Positions(shape) ==
    {p \in [1..Len(shape) -> 0..(MaxDim - 1)] : \A i \in 1..Len(shape) : p[i] < shape[i]}

\* the offset, in a contiguous source of shape source_shape, of the element a
\* position of the broadcast view stands for: new leading axes dropped and the
\* index of every size-1 axis of the source set to 0
SourceOffset(source_shape, position) ==
    LET lead == Len(position) - Len(source_shape)
        q == [k \in 1..Len(source_shape) |->
                 IF source_shape[k] = 1 THEN 0 ELSE position[k + lead]]
    IN  linear_index(intrinsic_strides_in_place(source_shape), q)

\* C9: every logical position of the broadcast view of a contiguous statically
\* shaped tensor addresses the source element obtained by setting the index of
\* each expanded axis and each new leading axis to 0, and no position
\* addresses outside the source buffer.
C9_BroadcastAddress ==
    (view # <<>> /\ made[Len(made)].op = "broadcast"
       /\ tensor[1].D = "Static" /\ tensor[1].L = "StaticHeapLayout"
       /\ Expands(tensor[1].shape, view[1].shape)) =>
        \A p \in Positions(view[1].shape) :
            /\ linear_index(view[1].strides, p) = SourceOffset(tensor[1].shape, p)
            /\ linear_index(view[1].strides, p) < Len(tensor[1].data)

\* C10: every slice chunks(chunk_size) yields on a view has exactly chunk_size
\* elements, for 1 <= chunk_size <= opt_chunk_size.
C10_ChunkLength ==
    (iter # <<>> /\ iter[1].arg >= 1 /\ iter[1].arg <= view[1].opt_chunk_size) =>
        \A i \in 1..Len(yielded) : Len(yielded[i].slice) = iter[1].arg

\* ------------------------------------------------------------------------
\* Properties of the elementwise kernels over views
\* ------------------------------------------------------------------------

\* the logical position with row-major rank k (from 0) in a shape
Unravel(shape, k) ==
    [i \in 1..Len(shape) |->
        (k \div intrinsic_strides_in_place(shape)[i]) % shape[i]]

\* the offset in its buffer of the element an operand holds at a position
ElementOffset(x, shape, position) ==
    IF x.owned THEN linear_index(intrinsic_strides_in_place(shape), position)
    ELSE linear_index(x.layout.strides, position)

\* the static add has run on two operands of the same logical shape
StaticAdd ==
    /\ last # <<>>
    /\ last[1].op = "add"
    /\ last[1].self.D = "Static"
    /\ last[1].rhs.layout.D = "Static"
    /\ last[1].rhs.layout.shape = last[1].self.shape

\* C11: when the kernel zips the chunk iterators of two operands of the same
\* logical shape at chunk_size = min of their opt_chunk_size, both iterators
\* yield the same number of chunks, the N-th chunk of each operand holds the
\* elements of the same chunk_size consecutive logical positions (in row-major
\* order), and the chunks together cover every position exactly once.
C11_ChunkAlignment ==
    StaticAdd =>
        LET c == last[1]
            shape == c.self.shape
            cs == c.chunk_size
            Covers(x, yd) ==
                \A k \in 1..Len(yd) :
                    /\ Len(yd[k].slice) = cs
                    /\ \A i \in 0..(cs - 1) :
                          yd[k].index + i =
                              ElementOffset(x, shape,
                                  Unravel(shape, (k - 1) * cs + i))
        IN  /\ cs = Min2(Len(c.self.data), c.rhs.layout.opt_chunk_size)
            /\ Len(c.self_chunks) = Len(c.rhs_chunks)
            /\ Len(c.self_chunks) * cs = Product(shape)
            /\ Covers(Operand(<<>>, c.self.data, TRUE), c.self_chunks)
            /\ Covers(c.rhs, c.rhs_chunks)

\* C12: a.add(b) for two tensors of the same static shape returns a contiguous
\* tensor of that shape whose element at every logical position p is
\* a[p] + b[p], whatever the layout of b (owned, or any view whose positions
\* all address its buffer).
C12_AddElementwise ==
    (StaticAdd
       /\ \A p \in Positions(last[1].self.shape) :
              ElementOffset(last[1].rhs, last[1].self.shape, p)
                  < Len(last[1].rhs.data)) =>
        LET a == last[1].self
            b == last[1].rhs
        IN  /\ result # <<>>
            /\ result[1].C = "Contiguous"
            /\ result[1].shape = a.shape
            /\ Len(result[1].data) = Product(a.shape)
            /\ \A p \in Positions(a.shape) :
                  LET k == linear_index(intrinsic_strides_in_place(a.shape), p)
                  IN  result[1].data[k + 1] =
                          a.data[k + 1]
                              + b.data[ElementOffset(b, a.shape, p) + 1]

\* an elementwise addition with at least one dynamically shaped operand has
\* been called
DynamicAdd ==
    /\ last # <<>>
    /\ last[1].op \in {"add", "add_dynamic"}
    /\ (last[1].self.D = "Dynamic" \/ last[1].rhs.layout.D = "Dynamic")

\* C13: a binary elementwise operation with at least one dynamically shaped
\* operand compares the runtime shapes of its operands before it computes
\* anything: when they differ it panics with 'Tensors must have same shape',
\* no chunk is read and no result (truncated or padded) is returned; a result
\* is returned only for operands of equal runtime shapes.
C13_ShapeMismatchPanics ==
    DynamicAdd =>
        LET c == last[1]
        IN  /\ c.self.shape # c.rhs.layout.shape =>
                  /\ lpanic = "Tensors must have same shape"
                  /\ result = <<>>
                  /\ c.self_chunks = <<>> /\ c.rhs_chunks = <<>>
            /\ result # <<>> => c.self.shape = c.rhs.layout.shape

\* a dynamically shaped [3,2] tensor added to a static [2,2] tensor has panicked
C13_Witness ==
    /\ DynamicAdd
    /\ last[1].self.D = "Dynamic" /\ last[1].self.shape = <<3, 2>>
    /\ last[1].rhs.layout.D = "Static" /\ last[1].rhs.layout.shape = <<2, 2>>
    /\ lpanic = "Tensors must have same shape"

\* ------------------------------------------------------------------------
\* Properties of the constructors
\* ------------------------------------------------------------------------

\* try_from was the caller's last call, for a tensor of the given D, and
\* nothing has been done with its result yet
TriedFrom(D) ==
    /\ last # <<>>
    /\ last[1].op = "try_from"
    /\ last[1].D = D
    /\ view = <<>>

\* C14: try_from(Vec) into a statically shaped tensor returns
\* Err(InvalidData), without panicking and without building a tensor, iff the
\* length of the vector differs from the element count of the shape;
\* otherwise it returns Ok and the tensor's data is the vector, unchanged and
\* in the same order.
C14_TryFromStatic ==
    TriedFrom("Static") =>
        LET c == last[1]
        IN  /\ lpanic = NoPanic
            /\ outcome \in {"Ok", "InvalidData"}
            /\ outcome = "InvalidData" <=> Len(c.v) # Product(c.S)
            /\ outcome = "InvalidData" => tensor = <<>>
            /\ outcome = "Ok" =>
                  /\ tensor # <<>>
                  /\ tensor[1].data = c.v
                  /\ tensor[1].shape = c.S

\* a vector of 3 elements was refused for the shape [2,2]
C14_Witness ==
    /\ TriedFrom("Static")
    /\ last[1].S = <<2, 2>> /\ Len(last[1].v) = 3
    /\ outcome = "InvalidData"

\* strides are the row-major cumulative products of shape: the last stride is
\* 1 and every other stride is the next stride times the next extent
IsRowMajor(shape, strides) ==
    /\ Len(strides) = Len(shape)
    /\ Len(shape) > 0 => strides[Len(shape)] = 1
    /\ \A i \in 1..(Len(shape) - 1) : strides[i] = strides[i + 1] * shape[i + 1]

\* some runtime shape compatible with S holds exactly n elements
LengthCompatible(S, n) ==
    \E shape \in [1..Len(S) -> 1..n] :
        runtime_compat(S, shape) /\ Product(shape) = n

\* C15: try_from(Vec) into a dynamically shaped tensor of type-level shape S
\* returns Ok only when the length of the vector is compatible with S; on Ok
\* the runtime shape satisfies S::runtime_compat, its product is the length of
\* the vector and the strides are the row-major strides of the runtime shape;
\* in every other case it returns Err(InvalidData).
C15_TryFromDynamic ==
    TriedFrom("Dynamic") =>
        LET c == last[1]
        IN  /\ outcome \in {"Ok", "InvalidData"}
            /\ outcome = "Ok" =>
                  /\ LengthCompatible(c.S, Len(c.v))
                  /\ tensor # <<>>
                  /\ runtime_compat(c.S, tensor[1].shape)
                  /\ Product(tensor[1].shape) = Len(c.v)
                  /\ IsRowMajor(tensor[1].shape, tensor[1].strides)
            /\ ~LengthCompatible(c.S, Len(c.v)) => outcome = "InvalidData"

\* C16: for every owned layout (StaticHeapLayout, HeapLayout, StackLayout)
\* strides() is the row-major cumulative products of the shape: the last
\* stride is 1 and each stride is the product of the extents after its axis
\* (shape [3, 2] has strides [2, 1]).
C16_OwnedStridesRowMajor ==
    tensor # <<>> =>
        /\ tensor[1].L \in {"StaticHeapLayout", "HeapLayout", "StackLayout"}
        /\ IsRowMajor(tensor[1].shape, tensor[1].strides)
        /\ tensor[1].shape = <<3, 2>> => tensor[1].strides = <<2, 1>>

\* n divided by s, rounded up
CeilDiv(n, s) == (n + s - 1) \div s

\* the latest view is the result of stride
Strode ==
    /\ view # <<>> /\ made # <<>>
    /\ made[Len(made)].op = "stride"

\* C17: stride with per-axis step s yields a view whose extent on every axis
\* is ceil(oldDim / s), both in the type-level result shape of the static form
\* and in the runtime shape the dynamic form computes from the step vector.
C17_StrideExtent ==
    Strode =>
        LET m == made[Len(made)]
            old == m.src.shape
        IN  /\ Len(view[1].shape) = Len(old)
            /\ \A i \in 1..Len(old) :
                  view[1].shape[i] = CeilDiv(old[i], m.arg[i])
            /\ m.src.D = "Static" =>
                  \A i \in 1..Len(old) : m.S[i] = CeilDiv(m.srcS[i], m.arg[i])

\* the length of the innermost run of logically consecutive elements at unit
\* stride: from the innermost axis outwards, an axis extends the run while
\* its stride equals the length of the run so far
RECURSIVE UnitRun(_, _, _, _)
UnitRun(shape, strides, i, acc) ==
    IF i = 0 \/ strides[i] # acc THEN acc
    ELSE UnitRun(shape, strides, i - 1, acc * shape[i])

\* the latest view is the result of stride or transpose
StrodeOrTransposed ==
    /\ view # <<>> /\ made # <<>>
    /\ made[Len(made)].op \in {"stride", "transpose"}

\* C18: opt_chunk_size() is the total element count for a fully contiguous
\* layout; for a view produced by stride or transpose it is the length of the
\* innermost run of logically consecutive elements at unit stride in the
\* backing store (1 when the innermost axis is not at unit stride), and never
\* larger than that run.
C18_OptChunkSize ==
    /\ tensor # <<>> =>
          Layout(tensor[1]).opt_chunk_size = Product(tensor[1].shape)
    /\ StrodeOrTransposed =>
          LET v == view[1]
              run == UnitRun(v.shape, v.strides, Len(v.shape), 1)
          IN  /\ v.opt_chunk_size = run
              /\ v.opt_chunk_size <= run
              /\ v.strides[Len(v.strides)] # 1 => v.opt_chunk_size = 1

\* the latest view is the result of transpose
JustTransposed ==
    /\ view # <<>> /\ made # <<>>
    /\ made[Len(made)].op = "transpose"

TransposedTwice ==
    /\ view # <<>> /\ Len(made) >= 2
    /\ made[Len(made)].op = "transpose"
    /\ made[Len(made) - 1].op = "transpose"

\* the element a layout over the data of the tensor holds at a position: an
\* owned layout stores its elements in row-major order, a view reads through
\* its strides; -1 stands for a read past the end of the data
ElementAt(y, owned, position) ==
    LET offset == IF owned
                  THEN linear_index(intrinsic_strides_in_place(y.shape), position)
                  ELSE linear_index(y.strides, position)
    IN  IF offset < Len(tensor[1].data) THEN tensor[1].data[offset + 1] ELSE -1

\* C20: transposing twice is the identity: transpose(transpose(T)) has the
\* shape of T, the strides of T and the element of T at every logical
\* position, and a Contiguous T gets the Contiguous marker back.
C20_TransposeTwice ==
    TransposedTwice =>
        LET T == made[Len(made) - 1].src
            owned == Len(made) = 2
            v == view[1]
        IN  /\ v.shape = T.shape
            /\ v.strides = T.strides
            /\ made[Len(made)].S = made[Len(made) - 1].srcS
            /\ \A k \in 0..(Product(T.shape) - 1) :
                  LET position == Unravel(T.shape, k)
                  IN  ElementAt(v, FALSE, position) = ElementAt(T, owned, position)
            /\ made[Len(made) - 1].srcC = "Contiguous" =>
                  made[Len(made)].C = "Contiguous"

\* the latest view is the result of reshape, taken from a contiguous source:
\* an owned tensor, or a view of marker Contiguous laid out row-major
Reshaped ==
    /\ view # <<>> /\ made # <<>>
    /\ made[Len(made)].op = "reshape"
    /\ made[Len(made)].srcC = "Contiguous"
    /\ Len(made) = 1 \/ IsRowMajor(made[Len(made)].src.shape,
                                   made[Len(made)].src.strides)

\* C21: reshape of a contiguous tensor to a target shape Z with the same
\* number of elements returns a view over the same buffer with shape Z, the
\* row-major strides of Z and opt_chunk_size equal to the element count, and
\* the element at row-major rank k of the view is the element at row-major rank
\* k of the source; [1, 2, 1, 2] of shape [4] reshaped to [2, 2] has strides
\* [2, 1] and opt_chunk_size 4.
C21_Reshape ==
    Reshaped =>
        LET m == made[Len(made)]
            v == view[1]
            Z == m.arg
        IN  /\ v.shape = Z
            /\ IsRowMajor(Z, v.strides)
            /\ Product(Z) = Product(m.src.shape)
            /\ v.num_elements = Product(Z)
            /\ v.opt_chunk_size = Product(Z)
            /\ v.D = m.src.D /\ m.C = "Contiguous"
            /\ \A k \in 0..(Product(Z) - 1) :
                  ElementAt(v, FALSE, Unravel(Z, k))
                      = ElementAt(m.src, Len(made) = 1, Unravel(m.src.shape, k))
            /\ (m.src.shape = <<4>> /\ Z = <<2, 2>>) =>
                  (v.strides = <<2, 1>> /\ v.opt_chunk_size = 4)

\* a tensor of shape [4] has been reshaped to [2, 2]
C21_Witness ==
    /\ Reshaped /\ Len(made) = 1
    /\ tensor[1].shape = <<4>> /\ tensor[1].L = "StaticHeapLayout"
    /\ view[1].shape = <<2, 2>> /\ view[1].strides = <<2, 1>>
    /\ view[1].opt_chunk_size = 4

\* the sum of the entries of a sequence
RECURSIVE SumOfSeq(_)
SumOfSeq(s) == IF Len(s) = 0 THEN 0 ELSE Head(s) + SumOfSeq(Tail(s))

\* sum has run along an axis of its operand
Summed ==
    /\ last # <<>>
    /\ last[1].op = "sum"
    /\ last[1].Ax < Len(last[1].S)

\* C22: sum::<Ax>() on a statically shaped tensor returns a contiguous tensor
\* whose shape is the input shape with axis Ax collapsed to 1 and whose every
\* element is the sum of the input elements along axis Ax; the sum over axis
\* 1 of the 3x3 identity is of shape [3, 1], one sum per row.
C22_Sum ==
    Summed =>
        LET c == last[1]
            shape == c.src.layout.shape
            out == [i \in 1..Len(shape) |-> IF i = c.Ax + 1 THEN 1 ELSE shape[i]]
        IN  /\ c.panic = NoPanic
            /\ result # <<>>
            /\ result[1].shape = out
            /\ result[1].C = "Contiguous"
            /\ Len(result[1].data) = Product(out)
            /\ \A k \in 0..(Product(out) - 1) :
                  LET position == Unravel(out, k)
                      along == [i \in 1..shape[c.Ax + 1] |->
                                  c.src.data[ElementOffset(c.src, shape,
                                      [position EXCEPT ![c.Ax + 1] = i - 1]) + 1]]
                  IN  result[1].data[k + 1] = SumOfSeq(along)
            /\ (shape = <<3, 3>> /\ c.Ax = 1) => result[1].shape = <<3, 1>>

\* the tasks that have written a cell
Writers(c) == {a.task : a \in {b \in accesses : b.kind = "write" /\ b.cell = c}}

\* every task of the chunk has finished
AllDone == \A i \in 1..Len(tasks) : tasks[i].pc = "done"

\* C23: within one chunk of an elementwise kernel every output cell is written
\* by exactly one parallel task and no task reads a cell that another task
\* writes, so the result is the same under every interleaving of the tasks:
\* when all tasks are done each zipped output cell holds the combination of
\* the two operands the kernel was given at its index.
C23_DisjointTasks ==
    kernel # <<>> =>
        LET k == kernel[1]
            target == IF k.op = "binary" THEN "out" ELSE "self"
            n == zip_len(k)
        IN  /\ \A i \in 1..Len(cells[1][target]) :
                  Cardinality(Writers(<<target, i>>)) <= 1
            /\ \A a \in accesses, b \in accesses :
                  (a.kind = "read" /\ b.kind = "write" /\ a.cell = b.cell)
                      => a.task = b.task
            /\ \A a \in accesses : a.kind = "write" => a.cell[1] = target
            /\ AllDone =>
                  \A i \in 1..Len(cells[1][target]) :
                      IF i <= n
                      THEN /\ Cardinality(Writers(<<target, i>>)) = 1
                           /\ cells[1][target][i] = k.self[i] + k.rhs[i]
                      ELSE /\ Writers(<<target, i>>) = {}
                           /\ cells[1][target][i] = k[target][i]

\* three tasks of the in-place kernel run interleaved: the second has finished
\* while the third has read and the first has not started
C23_Witness ==
    /\ kernel # <<>> /\ kernel[1].op = "inplace" /\ Len(tasks) = 3
    /\ tasks[1].pc = "ready" /\ tasks[2].pc = "done" /\ tasks[3].pc = "loaded"
    /\ cells[1].self[2] = 212

\* one odometer increment of a counter of one digit per axis, from axis i
\* towards the first axis; overflow tells that the outermost axis overflowed
RECURSIVE Increment(_, _, _, _)
Increment(digits, steps, shape, i) ==
    IF i = 0 THEN [digits |-> digits, overflow |-> TRUE]
    ELSE IF digits[i] + steps[i] >= shape[i]
         THEN Increment([digits EXCEPT ![i] = 0], steps, shape, i - 1)
         ELSE [digits |-> [digits EXCEPT ![i] = @ + steps[i]],
               overflow |-> FALSE]

\* the odometer after k increments from zero
RECURSIVE Odometer(_, _, _)
Odometer(steps, shape, k) ==
    IF k = 0 THEN [digits |-> Zeros(Len(shape)), overflow |-> FALSE]
    ELSE LET before == Odometer(steps, shape, k - 1)
         IN  IF before.overflow THEN before
             ELSE Increment(before.digits, steps, shape, Len(shape))

\* the dot product of a counter with the strides
DotProduct(digits, strides) ==
    SumOfSeq([i \in 1..Len(digits) |-> digits[i] * strides[i]])

\* C24: for a view of rank r, StridedChunks keeps one counter digit per axis;
\* the k-th call to next() returns the run that starts at the dot product of
\* the strides with the counter reached after k - 1 odometer increments
\* (innermost axis first, carrying into the next axis on overflow), and
\* next() returns None on every call after the outermost axis has overflowed.
C24_Odometer ==
    iter # <<>> =>
        LET it == iter[1]
            shape == view[1].shape
        IN  /\ Len(it.counter) = Len(shape)
            /\ \A k \in 1..Len(yielded) :
                  LET o == Odometer(it.step_sizes, shape, k - 1)
                  IN  /\ ~o.overflow
                      /\ yielded[k].index = DotProduct(o.digits, view[1].strides)
            /\ it.dead = Odometer(it.step_sizes, shape, Len(yielded)).overflow
            /\ (outcome = "None") => it.dead

\* ------------------------------------------------------------------------
\* Properties of the replay closures and of backward
\* ------------------------------------------------------------------------

\* the gradients the mathematical derivative rule sends to the operands of
\* node n for the incoming gradient g, element j
DerivativeRule(n, g, j) ==
    LET nd == nodes[n]
        a == nodes[nd.operands[1]].value[j]
        b == nodes[nd.operands[2]].value[j]
    IN  CASE nd.closure = "sub" -> <<g[j], 0 - g[j]>>
          [] nd.closure = "div" ->
                <<TruncDiv(g[j], b), TruncDiv(0 - (g[j] * a), b * b)>>
          [] nd.closure = "mul_add" -> <<g[j] * b, g[j] * a, g[j]>>

\* C25: for the Variable operations sub, div and mul_add the replay closure
\* dispatches to each operand the incoming gradient g multiplied elementwise
\* by the partial derivative of the result with respect to that operand: for
\* a - b, g to a and -g to b; for a / b, g / b to a and -g * a / (b * b) to
\* b; for a * b + c, g * b to a, g * a to b and g to c.
C25_DerivativeRules ==
    \A i \in 1..Len(stack) :
        LET f == stack[i]
        IN  (f.pc = "closure"
               /\ nodes[f.node].closure \in {"sub", "div", "mul_add"}) =>
                \A j \in 1..Len(f.grad) :
                    LET rule == DerivativeRule(f.node, f.grad, j)
                    IN  /\ Len(f.out) = Len(rule)
                        /\ \A o \in 1..Len(rule) : f.out[o][j] = rule[o]

\* the nodes the replay closures can reach from r, r included
Reach(r) == Captured({r}, Len(nodes))

\* the number of chains of captured operand slots that lead from r to n
RECURSIVE Paths(_, _)
Paths(r, n) ==
    IF r = n THEN 1
    ELSE SumOfSeq([i \in DOMAIN nodes[r].operands |-> Paths(nodes[r].operands[i], n)])

\* the operand slots, in the closures of the nodes reachable from r, that
\* hold a handle of n
ConsumerEdges(r, n) ==
    SumOfSeq([m \in 1..Len(nodes) |-> IF m \in Reach(r) THEN Slots(m, n) ELSE 0])

\* the entries of n's backward made by replay closures in the caller's call
ByClosures(n) ==
    root[1].entered[n] - (IF n = root[1].node THEN 1 ELSE 0)

\* C26 as stated: once the caller's backward call at a root has returned,
\* the closures have invoked the backward of every node of the root's graph
\* exactly as many times as operand slots of that graph hold a handle of it.
C26_OncePerEdge ==
    Completed =>
        \A n \in Reach(root[1].node) :
            ByClosures(n) = ConsumerEdges(root[1].node, n)

\* C26: once the caller's backward call at a root has returned, the backward
\* of every node has been entered exactly once per chain of operand slots
\* that leads from the root to it (once for the root, never for a node the
\* root does not reach); a node below an intermediate that is consumed twice
\* is entered once per path, which is more often than it has consumer edges.
C26_OncePerPath ==
    Completed =>
        \A n \in DOMAIN root[1].entered :
            root[1].entered[n] = Paths(root[1].node, n)

\* a completed call on r = m (op) m with m an operation result: the operand
\* of m is held by one slot and its backward was entered twice
C26_Witness ==
    /\ Completed
    /\ \E m \in OpNodes, x \in NodeIds :
          /\ Slots(root[1].node, m) = 2
          /\ Slots(m, x) = 1
          /\ ConsumerEdges(root[1].node, x) = 1
          /\ root[1].entered[m] = 2
          /\ root[1].entered[x] = 2

\* the fields of a node that construction sets and backward only reads
Fixed(nd) == <<nd.value, nd.shape, nd.closure, nd.operands, nd.param>>

\* C27: no step changes the value tensor or the replay closure (its name, its
\* captured operand handles and its scalar) of a node that exists: the steps of
\* backward write accumulators only, and the in-place operations of the
\* closures (mul_, div_, scal_mul_) write the gradient the closure was handed,
\* so after any sequence of backward calls every node still has the value and
\* the closure it was constructed with.
C27_ValueAndClosureKept ==
    [][/\ Len(nodes') >= Len(nodes)
       /\ \A n \in NodeIds : Fixed(nodes'[n]) = Fixed(nodes[n])]_vars

\* a completed backward through a mul or div closure, whose in-place
\* operation produced a gradient different from the one the caller passed,
\* has changed the accumulator of a tracking operand
C27_Witness ==
    /\ Completed
    /\ nodes[root[1].node].closure \in {"mul", "div"}
    /\ LET a == nodes[root[1].node].operands[1]
       IN  /\ root[1].pre[a] # None
           /\ nodes[a].grad # root[1].pre[a]
           /\ nodes[a].grad # PlusK(root[1].pre[a], root[1].grad, 1)
           /\ nodes[a].value \in LeafData(a)

\* C28: while a backward call runs, the mutable borrow of a node's cell is
\* only attempted when no borrow of that node is outstanding: a call about to
\* accumulate finds no running closure on its node, no node is on the call
\* stack twice, and the program never stops on a RefCell borrow panic, also
\* when both operand slots of a node hold the same handle or a node is
\* reached along several paths.
C28_NoBorrowConflict ==
    /\ panicked \notin {"BorrowMutError", "BorrowError"}
    /\ \A i \in 1..Len(stack) :
          /\ stack[i].pc = "accumulate" => SharedBorrows(stack[i].node) = 0
          /\ \A j \in 1..Len(stack) : i < j => stack[j].node < stack[i].node

\* the second backward of a tracking node whose handle was cloned into both
\* operand slots of the root has taken its mutable borrow and accumulated,
\* while the closure of the root still holds the shared borrow of the root
C28_Witness ==
    /\ Len(stack) = 2
    /\ stack[1].pc = "closure" /\ stack[1].idx = 2
    /\ Slots(stack[1].node, stack[2].node) = 2
    /\ root[1].entered[stack[2].node] = 2
    /\ stack[2].pc = "invoke" /\ stack[2].accumulated = 1
    /\ panicked = NoPanic

\* C29: a backward call the caller has started at any root of a graph of
\* statically shaped variables returns to the caller: the recursion through
\* the replay closures reaches the no-op closures of the leaves and the call
\* stack empties again without a panic.
C29_BackwardReturns ==
    (stack # <<>>) ~> Completed

\* a call three frames deep has reached the no-op closure of a leaf below an
\* operation result that is itself an operand of the root
C29_Witness ==
    /\ Len(stack) = 3
    /\ stack[3].node \in Leaves /\ stack[3].pc = "closure" /\ stack[3].out = <<>>
    /\ stack[2].node \in OpNodes /\ stack[1].node = root[1].node
    /\ panicked = NoPanic

\* every logical position of the view lies in the data it borrows
InBounds(x) ==
    \A p \in Positions(x.layout.shape) :
        linear_index(x.layout.strides, p) < Len(x.data)

\* the element of a view at a logical position
ViewElement(x, p) == x.data[linear_index(x.layout.strides, p) + 1]

\* two views have the same shape and the same element at every position
SameContents(x, y) ==
    /\ x.layout.shape = y.layout.shape
    /\ \A p \in Positions(x.layout.shape) : ViewElement(x, p) = ViewElement(y, p)

\* C30: the comparison of two views that lie within their data returns, without
\* a panic, true iff the views have the same shape and the same element at
\* every logical position; two views of one shape that differ in the element
\* at a single position compare unequal.
C30_ViewEquality ==
    (/\ last # <<>> /\ last[1].op = "eq"
     /\ InBounds(last[1].self) /\ InBounds(last[1].rhs)) =>
        /\ last[1].panic = NoPanic
        /\ result # <<>>
        /\ result[1].value = SameContents(last[1].self, last[1].rhs)
====
